---- MODULE Spec2Model ----
(***************************************************************************)
(* Kolo storage core: the Notification Bus (StorageEventEmitter), the       *)
(* Instrumented Operation Envelope (BaseStorageAdapter) and the Adapter     *)
(* Registry with its fallback resolver (StorageManager).                    *)
(*                                                                          *)
(* JavaScript runs one turn at a time; an `await` ends the turn.  Every     *)
(* action below is one turn: the synchronous code between two awaits.       *)
(* Timestamps and durations (Date.now()) are carried in the event payloads  *)
(* but never read by the envelope or the bus, so they are left out.         *)
(***************************************************************************)
EXTENDS Integers, Sequences, FiniteSets, TLC

\* ---------------------------------------------------------------- bounds
MaxInv  == 2    \* invocations of envelope operations in one behaviour
MaxRegs == 2    \* listener registrations made through on()
MaxInsts == 3   \* adapter instances handed to, or built for, the registry
MaxSubs == 2    \* on() and once() calls made on the bus alone
MaxEmitters == 2  \* StorageEventEmitter objects allocated
MaxWatch == 1   \* on() calls made on the adapters' emitters
MaxRuns == 2    \* operations started on the adapters that share a bus
MaxKeys == 2    \* the largest maxKeys a list call is given

\* ------------------------------------------------------------ vocabulary
Ops    == {"upload", "download", "delete", "get", "list", "exists"}
Phases == {"before", "success", "failure"}

\* The eighteen members of the StorageEvent enum, as <<phase, operation>>.
StorageEvent(ph, o) == <<ph, o>>
Kinds == {StorageEvent(ph, o) : ph \in Phases, o \in Ops}

\* Listener functions a caller can register, named by what they do when they
\* are called: return, throw before returning, return a promise that is
\* fulfilled later, return a promise that is rejected later (an `async`
\* function that throws is of the last sort).
Listeners == {"syncOk", "syncThrow", "asyncOk", "asyncReject"}

Invs == 1..MaxInv

\* Values: every value is a record [tag, val] so that any two can be compared.
None             == [tag |-> "none", val |-> ""]
Outcome(s)       == [tag |-> "outcome", val |-> s]
Outcomes         == {Outcome("success:true"), Outcome("success:false")}
BackendError     == [tag |-> "error", val |-> "backend"]
ListenerError(l) == [tag |-> "error", val |-> l]

\* options?.metadata?.correlationId as the caller passes it: absent, the empty
\* string, or a caller-defined trace id.  get and exists take no options.
Undefined == "undefined"
MetaIds   == {Undefined, "", "trace-1"}
TakesOptions(o) == o \in {"upload", "download", "delete", "list"}

VARIABLES
  setHeap,        \* the Set<EventListener> objects ever allocated by on(),
                  \* each as the sequence of its members in insertion order
  listeners,      \* Map<string, Set>: kind -> index in setHeap, 0 = no entry
  pc,             \* per invocation: where the async method is suspended
  op,             \* per invocation: which of the six operations
  meta,           \* per invocation: options.metadata.correlationId passed in
  correlationId,  \* per invocation: the local const correlationId
  nextUuid,       \* number of uuidv4() calls made so far
  calls,          \* per invocation and phase: state of each listener call
  emitState,      \* per invocation and phase: state of the emit() promise
  firstRejection, \* per invocation and phase: reason Promise.all rejects with
  emitted,        \* per invocation: the event records handed to emit()
  backendCalls,   \* per invocation: number of perform* calls (the spy)
  response,       \* per invocation: what perform* returned
  caught,         \* per invocation: the `error` bound by the catch clause
  result,         \* per invocation: what the caller observes
  closures,       \* the unsubscribe closures returned by on(), each with the
                  \* eventKey, the Set object and the listener it closed over
  wrapperCalls,   \* per wrappedListener made by once(): times it has run
  reEmitted,      \* the flag of the re-publishing callback's closure
  pubs,           \* the emit() calls of the last publishing turn: the kind,
                  \* the members at the start, the listeners called in order
  adapters,       \* StorageManager.adapters: the Map's entries in its order
  adapterConfigs, \* StorageManager.adapterConfigs: key -> configuration record
  defaultAdapter, \* StorageManager.defaultAdapter
  enableFallback, \* StorageManager.enableFallback
  insts,          \* number of adapter instances made so far; the n-th one
                  \* made carries id n
  latest,         \* per name: the instance of the last registration under
                  \* it, if the name has not been removed since
  since,          \* per name: the number of the registration that brought
                  \* the name into the registry it is in (0: it is not in)
  last,           \* the last call made on the manager and how it ended
  eventEmitter,   \* per adapter: BaseStorageAdapter.eventEmitter, 0 before
                  \* the adapter is constructed
  providerName,   \* per adapter: BaseStorageAdapter.providerName
  own,            \* per adapter: the emitter its constructor allocated
  injected,       \* per adapter: an emitter has been passed to its
                  \* constructor or to its setEventEmitter
  emitterCount,   \* number of StorageEventEmitter objects allocated
  subscribed,     \* the on() registrations: <<emitter, callback, kind>>
  received,       \* what the callbacks have been called with
  running,        \* per adapter: the operation between its two emits
  beganOn,        \* per adapter: the bus its running operation published
                  \* its before event on, 0 when none runs
  started,        \* number of operations started on the adapters
  disk,           \* the tree below LocalStorageAdapter.rootPath
  reply,          \* what the last call on the local adapter gave
  stored          \* per key: the content last uploaded under it

vars == <<setHeap, listeners, pc, op, meta, correlationId, nextUuid, calls,
          emitState, firstRejection, emitted, backendCalls, response, caught,
          result, closures, wrapperCalls, reEmitted, pubs, adapters,
          adapterConfigs, defaultAdapter, enableFallback, insts, latest, since,
          last, eventEmitter, providerName, own, injected, emitterCount,
          subscribed, received, running, beganOn, started, disk, reply,
          stored>>

busVars == <<setHeap, listeners>>
subVars == <<closures, wrapperCalls, reEmitted, pubs>>
mgrVars == <<adapters, adapterConfigs, defaultAdapter, enableFallback, insts,
             latest, since, last>>
invVars == <<pc, op, meta, correlationId, nextUuid, calls, emitState,
             firstRejection, emitted, backendCalls, response, caught, result>>
shareVars == <<eventEmitter, providerName, own, injected, emitterCount,
               subscribed, received, running, beganOn, started>>
fsVars == <<disk, reply, stored>>
restVars == <<shareVars, fsVars>>

\* ------------------------------------------------- StorageEventEmitter
\* this.listeners.get(eventKey), read as the array Array.from() builds.
SnapshotSeq(k) == IF listeners[k] = 0 THEN <<>> ELSE setHeap[listeners[k]]
Snapshot(k) == {SnapshotSeq(k)[n] : n \in 1..Len(SnapshotSeq(k))}

Registrations == {<<k, l>> \in Kinds \X Listeners : l \in Snapshot(k)}

\* on(event, listener): create the kind's Set if the map has none, add the
\* listener to it (a Set holds a function once).
AddToSet(k, l) ==
  IF listeners[k] = 0
    THEN /\ setHeap' = Append(setHeap, <<l>>)
         /\ listeners' = [listeners EXCEPT ![k] = Len(setHeap) + 1]
    ELSE /\ setHeap' = [setHeap EXCEPT ![listeners[k]] =
                          IF l \in Snapshot(k) THEN @ ELSE Append(@, l)]
         /\ UNCHANGED listeners

\* on() by a caller that drops the returned closure.
On(k, l) ==
  /\ l \notin Snapshot(k)
  /\ AddToSet(k, l)
  /\ UNCHANGED <<restVars, mgrVars, invVars, subVars>>

\* The body of emit()'s map callback for one listener: the listener is called
\* inside try/catch; a throw is logged and replaced by a fulfilled promise, a
\* plain return is wrapped by Promise.resolve, a returned promise is kept.
CallListener(l) ==
  CASE l = "syncOk"      -> "resolved"
    [] l = "syncThrow"   -> "caught"
    [] l = "asyncOk"     -> "pending"
    [] l = "asyncReject" -> "pending"

\* The synchronous part of emit(): every listener of the snapshot is called.
EmitCalls(k) ==
  [l \in Listeners |-> IF l \in Snapshot(k) THEN CallListener(l) ELSE "none"]

\* Promise.all(promises): fulfilled once every promise is, rejected as soon
\* as one of them is (with that promise's reason).
AllFulfilled(i, ph) ==
  \A l \in Listeners : calls[i][ph][l] \in {"none", "resolved", "caught"}
AnyRejected(i, ph) == firstRejection[i][ph] # None

\* A promise returned by a listener settles.  This happens whether or not
\* the emit() that started the listener is still being awaited.
ListenerSettle(i, ph, l) ==
  /\ calls[i][ph][l] = "pending"
  /\ IF l = "asyncReject"
       THEN /\ calls' = [calls EXCEPT ![i][ph][l] = "rejected"]
            /\ firstRejection' =
                 [firstRejection EXCEPT ![i][ph] =
                    IF @ = None THEN ListenerError(l) ELSE @]
       ELSE /\ calls' = [calls EXCEPT ![i][ph][l] = "resolved"]
            /\ UNCHANGED firstRejection
  /\ UNCHANGED <<restVars, mgrVars, busVars, subVars, pc, op, meta, correlationId, nextUuid, emitState,
                 emitted, backendCalls, response, caught, result>>

\* ------------------------------------------------- BaseStorageAdapter
uuidv4(n) == "uuid-" \o ToString(n)

\* (variants of CorrelationIdFor: one id for every minted call; the caller's
\* id never read)
CorrelationIdFor_static(o, m, n) ==
  IF o = "upload" /\ m # Undefined /\ m # "" THEN m ELSE uuidv4(0)
CorrelationIdFor_ignoring(o, m, n) == uuidv4(n)

\* First line of each method.  upload reads the caller's id and falls back to
\* uuidv4() when it is undefined or the empty string (||); the other five
\* call uuidv4() unconditionally.
CorrelationIdFor(o, m, n) ==
  IF o = "upload" /\ m # Undefined /\ m # "" THEN m ELSE uuidv4(n)

Mints(o, m) == ~(o = "upload" /\ m # Undefined /\ m # "")

\* The object literal handed to emit(): kind, correlationId and the
\* phase-specific payload (response for success, error for failure).
EventData(i, ph, o, cid, payload) ==
  [kind |-> StorageEvent(ph, o), correlationId |-> cid, payload |-> payload]

\* this.eventEmitter.emit(kind, data) up to its await: the event is recorded,
\* the listeners are called, the emit promise is pending.
Publish(i, ph, o, cid, payload) ==
  /\ emitted' = [emitted EXCEPT ![i] = Append(@, EventData(i, ph, o, cid, payload))]
  /\ calls' = [calls EXCEPT ![i][ph] = EmitCalls(StorageEvent(ph, o))]
  /\ emitState' = [emitState EXCEPT ![i][ph] = "running"]

\* emit() of phase `done` completes with state st and, in the same turn, the
\* envelope publishes phase ph.
SettleAndPublish(i, done, st, ph, payload) ==
  /\ emitted' = [emitted EXCEPT ![i] =
                   Append(@, EventData(i, ph, op[i], correlationId[i], payload))]
  /\ calls' = [calls EXCEPT ![i][ph] = EmitCalls(StorageEvent(ph, op[i]))]
  /\ emitState' = [emitState EXCEPT ![i][done] = st, ![i][ph] = "running"]

\* A caller invokes upload/download/delete/get/list/exists: the method runs
\* to its first await, i.e. it fixes the correlation id and publishes the
\* before-event.  Invocation records are used in order, 1 first.  The other
\* five methods have upload's body with their own three kinds; they differ
\* from it only in CorrelationIdFor.
Invoke(i, o, m) ==
  /\ pc[i] = "idle"
  /\ \A j \in Invs : j < i => pc[j] # "idle"
  /\ (~TakesOptions(o)) => m = Undefined
  /\ op' = [op EXCEPT ![i] = o]
  /\ meta' = [meta EXCEPT ![i] = m]
  /\ correlationId' = [correlationId EXCEPT ![i] = CorrelationIdFor(o, m, nextUuid + 1)]
  /\ nextUuid' = IF Mints(o, m) THEN nextUuid + 1 ELSE nextUuid
  /\ Publish(i, "before", o, correlationId'[i], None)
  /\ pc' = [pc EXCEPT ![i] = "before"]
  /\ UNCHANGED <<restVars, mgrVars, busVars, subVars, firstRejection, backendCalls, response, caught, result>>

\* `await emit(BEFORE_*)` is fulfilled: perform* is called.
BeforeResolved(i) ==
  /\ pc[i] = "before"
  /\ AllFulfilled(i, "before")
  /\ emitState' = [emitState EXCEPT ![i]["before"] = "resolved"]
  /\ backendCalls' = [backendCalls EXCEPT ![i] = @ + 1]
  /\ pc' = [pc EXCEPT ![i] = "perform"]
  /\ UNCHANGED <<restVars, mgrVars, busVars, subVars, op, meta, correlationId, nextUuid, calls,
                 firstRejection, emitted, response, caught, result>>

\* `await emit(BEFORE_*)` is rejected: control enters the catch clause, which
\* publishes the failure-event.
BeforeRejected(i) ==
  /\ pc[i] = "before"
  /\ AnyRejected(i, "before")
  /\ caught' = [caught EXCEPT ![i] = firstRejection[i]["before"]]
  /\ SettleAndPublish(i, "before", "rejected", "failure", caught'[i])
  /\ pc' = [pc EXCEPT ![i] = "failure"]
  /\ UNCHANGED <<restVars, mgrVars, busVars, subVars, op, meta, correlationId, nextUuid, firstRejection,
                 backendCalls, response, result>>

\* perform* returns an Outcome: the success-event is published.
BackendReturn(i, r) ==
  /\ pc[i] = "perform"
  /\ response' = [response EXCEPT ![i] = r]
  /\ Publish(i, "success", op[i], correlationId[i], r)
  /\ pc' = [pc EXCEPT ![i] = "success"]
  /\ UNCHANGED <<restVars, mgrVars, busVars, subVars, op, meta, correlationId, nextUuid, firstRejection,
                 backendCalls, caught, result>>

\* (variant of BackendThrow: the error is kept in a field of the adapter)
BackendThrow_sharedError(i, e) ==
  /\ pc[i] = "perform"
  /\ caught' = [j \in Invs |-> e]
  /\ Publish(i, "failure", op[i], correlationId[i], e)
  /\ pc' = [pc EXCEPT ![i] = "failure"]
  /\ UNCHANGED <<restVars, mgrVars, busVars, subVars, op, meta, correlationId, nextUuid, firstRejection,
                 backendCalls, response, result>>

\* perform* throws: the catch clause publishes the failure-event.
BackendThrow(i, e) ==
  /\ pc[i] = "perform"
  /\ caught' = [caught EXCEPT ![i] = e]
  /\ Publish(i, "failure", op[i], correlationId[i], e)
  /\ pc' = [pc EXCEPT ![i] = "failure"]
  /\ UNCHANGED <<restVars, mgrVars, busVars, subVars, op, meta, correlationId, nextUuid, firstRejection,
                 backendCalls, response, result>>

\* (variant of SuccessResolved: the Outcome is rebuilt instead of returned)
SuccessResolved_rebuilt(i) ==
  /\ pc[i] = "success"
  /\ AllFulfilled(i, "success")
  /\ emitState' = [emitState EXCEPT ![i]["success"] = "resolved"]
  /\ result' = [result EXCEPT ![i] =
                  [how |-> "returned", value |-> Outcome("success:true")]]
  /\ pc' = [pc EXCEPT ![i] = "done"]
  /\ UNCHANGED <<restVars, mgrVars, busVars, subVars, op, meta, correlationId, nextUuid, calls,
                 firstRejection, emitted, backendCalls, response, caught>>

\* `await emit(AFTER_*_SUCCESS)` is fulfilled: return response.
SuccessResolved(i) ==
  /\ pc[i] = "success"
  /\ AllFulfilled(i, "success")
  /\ emitState' = [emitState EXCEPT ![i]["success"] = "resolved"]
  /\ result' = [result EXCEPT ![i] = [how |-> "returned", value |-> response[i]]]
  /\ pc' = [pc EXCEPT ![i] = "done"]
  /\ UNCHANGED <<restVars, mgrVars, busVars, subVars, op, meta, correlationId, nextUuid, calls,
                 firstRejection, emitted, backendCalls, response, caught>>

\* `await emit(AFTER_*_SUCCESS)` is rejected: it is inside the try block, so
\* the catch clause runs and publishes the failure-event.
SuccessRejected(i) ==
  /\ pc[i] = "success"
  /\ AnyRejected(i, "success")
  /\ caught' = [caught EXCEPT ![i] = firstRejection[i]["success"]]
  /\ SettleAndPublish(i, "success", "rejected", "failure", caught'[i])
  /\ pc' = [pc EXCEPT ![i] = "failure"]
  /\ UNCHANGED <<restVars, mgrVars, busVars, subVars, op, meta, correlationId, nextUuid, firstRejection,
                 backendCalls, response, result>>

\* (variant of FailureResolved: the error is turned into a soft Outcome)
FailureResolved_swallowed(i) ==
  /\ pc[i] = "failure"
  /\ AllFulfilled(i, "failure")
  /\ emitState' = [emitState EXCEPT ![i]["failure"] = "resolved"]
  /\ result' = [result EXCEPT ![i] =
                  [how |-> "returned", value |-> Outcome("success:false")]]
  /\ pc' = [pc EXCEPT ![i] = "done"]
  /\ UNCHANGED <<restVars, mgrVars, busVars, subVars, op, meta, correlationId, nextUuid, calls,
                 firstRejection, emitted, backendCalls, response, caught>>

\* `await emit(*_FAILED)` is fulfilled: throw error.
FailureResolved(i) ==
  /\ pc[i] = "failure"
  /\ AllFulfilled(i, "failure")
  /\ emitState' = [emitState EXCEPT ![i]["failure"] = "resolved"]
  /\ result' = [result EXCEPT ![i] = [how |-> "threw", value |-> caught[i]]]
  /\ pc' = [pc EXCEPT ![i] = "done"]
  /\ UNCHANGED <<restVars, mgrVars, busVars, subVars, op, meta, correlationId, nextUuid, calls,
                 firstRejection, emitted, backendCalls, response, caught>>

\* `await emit(*_FAILED)` is rejected inside the catch clause: the rejection
\* leaves the method in place of `throw error`.
FailureRejected(i) ==
  /\ pc[i] = "failure"
  /\ AnyRejected(i, "failure")
  /\ emitState' = [emitState EXCEPT ![i]["failure"] = "rejected"]
  /\ result' = [result EXCEPT ![i] =
                  [how |-> "threw", value |-> firstRejection[i]["failure"]]]
  /\ pc' = [pc EXCEPT ![i] = "done"]
  /\ UNCHANGED <<restVars, mgrVars, busVars, subVars, op, meta, correlationId, nextUuid, calls,
                 firstRejection, emitted, backendCalls, response, caught>>

\* ------------------------------------------------------- specification
\* ------------------------------------------------------ StorageManager
\* Adapter names as callers and configuration records spell them, and
\* String.prototype.toLowerCase on them.
RawNames == {"a", "A", "b"}
toLowerCase(n) == IF n = "A" THEN "a" ELSE n
Names == {toLowerCase(n) : n \in RawNames}

\* An adapter instance: what isReady() answers (it reads fields fixed by the
\* constructor) and, for one a factory built, the config the factory got.
Instance(id, ready) == [id |-> id, ready |-> ready, config |-> ""]
Built(id, config) == [id |-> id, ready |-> TRUE, config |-> config]
NoInstance == Instance(0, FALSE)

\* AdapterConfig: an absent `enabled` counts as true, `priority` is absent
\* (<<>>) or a number, `config` is a blob of the record's own.
Blob(name) == "config of " \o name
AdapterConfig(name, enabled, priority) ==
  [present |-> TRUE, enabled |-> enabled, priority |-> priority,
   config |-> Blob(name)]
NoConfig == [present |-> FALSE, enabled |-> TRUE, priority |-> <<>>,
             config |-> ""]
ConfigRecords(name) ==
  {AdapterConfig(name, TRUE, <<1>>), AdapterConfig(name, FALSE, <<>>)}

NoCall == [call |-> "none", arg |-> Undefined, how |-> "none",
           inst |-> NoInstance, err |-> "", via |-> ""]

\* ------------------------------------------- adapters and their buses
\* Two adapter objects, the provider name the class of each passes to
\* super(), the callback of an observer, and the operation it watches.
AdapterIds    == {1, 2}
ProviderName(a) == IF a = 1 THEN "Local" ELSE "Azure"
Subscribers   == {"audit"}
SharedOps     == {"upload"}
SharedKinds   == {StorageEvent(ph, o) : ph \in Phases, o \in SharedOps}
EmitterIds    == 1..MaxEmitters
NoEmitter     == 0   \* the constructor's eventEmitter argument left out

\* No adapter constructed, no StorageEventEmitter allocated.
NoAdapters ==
  /\ eventEmitter = [a \in AdapterIds |-> 0]
  /\ providerName = [a \in AdapterIds |-> ""]
  /\ own = [a \in AdapterIds |-> 0]
  /\ injected = [a \in AdapterIds |-> FALSE]
  /\ emitterCount = 0
  /\ subscribed = {}
  /\ received = {}
  /\ running = [a \in AdapterIds |-> "idle"]
  /\ beganOn = [a \in AdapterIds |-> NoEmitter]
  /\ started = 0

\* ------------------------------------------------ the local filesystem
\* A key is a string, kept as the sequence of its characters so that
\* normalizePath and path.join can be computed on it.  The keys callers pass:
\* plain names, a nested name, and other spellings of the same names.
Key_f       == <<"f">>
Key_g       == <<"g">>
Key_f_g     == <<"f", "/", "g">>
Key_f__g    == <<"f", "/", "/", "g">>
Key_f_bs_g  == <<"f", "\\", "g">>
Key__f      == <<"/", "f">>
Key_f_      == <<"f", "/">>
Keys == {Key_f, Key_g, Key_f_g, Key_f__g, Key_f_bs_g, Key__f, Key_f_}
NoKey == <<>>

\* generateKey(base, ext): `${base}_${Date.now()}_${random}.${ext}`, a name
\* without separators that no caller passes; one such name.
GeneratedKey == <<"h">>

\* file.content: a Buffer of bytes, or a ReadStream (types/index.ts).
Buffer(bytes) == [type |-> "Buffer", bytes |-> bytes]
ReadStream    == [type |-> "ReadStream", bytes |-> <<>>]
NoContent     == [type |-> "undefined", bytes |-> <<>>]
Contents      == {Buffer(<<1>>), Buffer(<<2>>), ReadStream}

\* path.replace(/\\/g, '/').replace(/\/+/g, '/')
ReplaceBackslashes(path) ==
  [n \in 1..Len(path) |-> IF path[n] = "\\" THEN "/" ELSE path[n]]

RECURSIVE CollapseSlashes(_)
CollapseSlashes(path) ==
  IF Len(path) < 2 THEN path
  ELSE IF path[1] = "/" /\ path[2] = "/" THEN CollapseSlashes(Tail(path))
  ELSE <<path[1]>> \o CollapseSlashes(Tail(path))

normalizePath(path) == CollapseSlashes(ReplaceBackslashes(path))

\* The names between the separators of a POSIX path, empty ones dropped.
RECURSIVE Split(_, _)
Split(path, name) ==
  LET done == IF name = <<>> THEN <<>> ELSE <<name>>
  IN  IF path = <<>> THEN done
      ELSE IF path[1] = "/" THEN done \o Split(Tail(path), <<>>)
      ELSE Split(Tail(path), Append(name, path[1]))

\* path.join(this.rootPath, normalized), as the names below the root and
\* whether the path ends in a separator (path.join keeps a trailing one).
getFilePath(key) ==
  LET normalized == normalizePath(key)
  IN  [segs  |-> Split(normalized, <<>>),
       slash |-> normalized # <<>> /\ normalized[Len(normalized)] = "/"]

\* path.dirname(filePath)
dirname(filePath) ==
  [segs |-> SubSeq(filePath.segs, 1, Len(filePath.segs) - 1), slash |-> FALSE]

\* normalizePath(path.relative(this.rootPath, fullPath))
RECURSIVE relative(_)
relative(segs) ==
  IF Len(segs) = 1 THEN segs[1]
  ELSE segs[1] \o <<"/">> \o relative(Tail(segs))

Prefixes(segs) == {SubSeq(segs, 1, n) : n \in 0..Len(segs)}
Paths == UNION {Prefixes(getFilePath(key).segs) : key \in Keys \cup {GeneratedKey}}

\* What is at a path: nothing, a directory, a regular file with its bytes.
Absent      == [type |-> "absent", content |-> <<>>]
Dir         == [type |-> "dir", content |-> <<>>]
File(bytes) == [type |-> "file", content |-> bytes]

\* list options: `options?.prefix || ''`, `options?.maxKeys || files.length`:
\* an absent option and a falsy one are the same to the code.
ListOptions(prefix, maxKeys, continuationToken) ==
  [prefix |-> prefix, maxKeys |-> maxKeys,
   continuationToken |-> continuationToken]
NoOptions == ListOptions(<<>>, 0, Undefined)

\* options.continuationToken: left out, or a string the caller has.
ContinuationTokens == {Undefined, "page-2"}

\* What a call gave: a returned response or a raised exception.
NoReply == [call |-> "none", key |-> NoKey, options |-> NoOptions,
            how |-> "none", success |-> FALSE, code |-> "",
            content |-> NoContent, exists |-> Undefined, objects |-> <<>>,
            hasMore |-> FALSE, nextContinuationToken |-> Undefined]

\* new LocalStorageAdapter(config) with createDirectory left on: the root
\* directory exists and is empty.
NoFiles ==
  /\ disk = [p \in Paths |-> IF p = <<>> THEN Dir ELSE Absent]
  /\ reply = NoReply
  /\ stored = [key \in Keys \cup {GeneratedKey} |-> NoContent]

\* new StorageManager(): no configuration.
NoManagerConfig ==
  /\ adapters = <<>>
  /\ adapterConfigs = [n \in RawNames |-> NoConfig]
  /\ defaultAdapter = Undefined
  /\ enableFallback = FALSE
  /\ insts = 0
  /\ latest = [n \in Names |-> NoInstance]
  /\ since = [n \in Names |-> 0]
  /\ last = NoCall

NoCalls == [l \in Listeners |-> "none"]

\* No listener registered, no operation invoked yet.
InitConcurrent ==
  /\ setHeap = <<>>
  /\ listeners = [k \in Kinds |-> 0]
  /\ pc = [i \in Invs |-> "idle"]
  /\ op = [i \in Invs |-> "upload"]
  /\ meta = [i \in Invs |-> Undefined]
  /\ correlationId = [i \in Invs |-> ""]
  /\ nextUuid = 0
  /\ calls = [i \in Invs |-> [ph \in Phases |-> NoCalls]]
  /\ emitState = [i \in Invs |-> [ph \in Phases |-> "none"]]
  /\ firstRejection = [i \in Invs |-> [ph \in Phases |-> None]]
  /\ emitted = [i \in Invs |-> <<>>]
  /\ backendCalls = [i \in Invs |-> 0]
  /\ response = [i \in Invs |-> None]
  /\ caught = [i \in Invs |-> None]
  /\ result = [i \in Invs |-> [how |-> "pending", value |-> None]]
  /\ closures = <<>>
  /\ wrapperCalls = <<>>
  /\ reEmitted = FALSE
  /\ pubs = <<>>
  /\ NoManagerConfig
  /\ NoAdapters
  /\ NoFiles

\* The same, with the one call the caller is going to make (its operation and
\* the correlation id in its options) already chosen.
Init ==
  /\ setHeap = <<>>
  /\ listeners = [k \in Kinds |-> 0]
  /\ pc = [i \in Invs |-> "idle"]
  /\ \E o \in Ops, m \in MetaIds :
       /\ TakesOptions(o) \/ m = Undefined
       /\ op = [i \in Invs |-> IF i = 1 THEN o ELSE "upload"]
       /\ meta = [i \in Invs |-> IF i = 1 THEN m ELSE Undefined]
  /\ correlationId = [i \in Invs |-> ""]
  /\ nextUuid = 0
  /\ calls = [i \in Invs |-> [ph \in Phases |-> NoCalls]]
  /\ emitState = [i \in Invs |-> [ph \in Phases |-> "none"]]
  /\ firstRejection = [i \in Invs |-> [ph \in Phases |-> None]]
  /\ emitted = [i \in Invs |-> <<>>]
  /\ backendCalls = [i \in Invs |-> 0]
  /\ response = [i \in Invs |-> None]
  /\ caught = [i \in Invs |-> None]
  /\ result = [i \in Invs |-> [how |-> "pending", value |-> None]]
  /\ closures = <<>>
  /\ wrapperCalls = <<>>
  /\ reEmitted = FALSE
  /\ pubs = <<>>
  /\ NoManagerConfig
  /\ NoAdapters
  /\ NoFiles

\* One invocation; listeners are registered, at any moment, for the three
\* kinds of the operation that is invoked (emit() reads no other kind's
\* listeners), at most MaxRegs of them.
Next ==
  \/ /\ Cardinality(Registrations) < MaxRegs
     /\ \E ph \in Phases, l \in Listeners : On(StorageEvent(ph, op[1]), l)
  \/ Invoke(1, op[1], meta[1])
  \/ \E ph \in Phases, l \in Listeners : ListenerSettle(1, ph, l)
  \/ BeforeResolved(1)
  \/ BeforeRejected(1)
  \/ \E r \in Outcomes : BackendReturn(1, r)
  \/ BackendThrow(1, BackendError)
  \/ SuccessResolved(1)
  \/ SuccessRejected(1)
  \/ FailureResolved(1)
  \/ FailureRejected(1)

Spec == Init /\ [][Next]_vars

\* Up to MaxInv invocations, in flight one after another or at once, on a bus
\* without listeners.
NextConcurrent ==
  \/ \E i \in Invs, o \in Ops, m \in MetaIds : Invoke(i, o, m)
  \/ \E i \in Invs : BeforeResolved(i)
  \/ \E i \in Invs, r \in Outcomes : BackendReturn(i, r)
  \/ \E i \in Invs : BackendThrow(i, BackendError)
  \/ \E i \in Invs : SuccessResolved(i)
  \/ \E i \in Invs : FailureResolved(i)

SpecConcurrent == InitConcurrent /\ [][NextConcurrent]_vars

\* Up to MaxInv invocations of upload and delete in flight at once, while a
\* caller registers listeners that answer with a promise for the
\* before-event of upload: one of them rejects it.
PairOps == {"upload", "delete"}
PairListeners == {"asyncOk", "asyncReject"}
PairMetaIds == {Undefined, "trace-1"}

NextPair ==
  \/ /\ Cardinality(Registrations) < MaxRegs
     /\ \E l \in PairListeners : On(StorageEvent("before", "upload"), l)
  \/ \E i \in Invs, o \in PairOps, m \in PairMetaIds : Invoke(i, o, m)
  \/ \E i \in Invs, l \in PairListeners : ListenerSettle(i, "before", l)
  \/ \E i \in Invs : BeforeResolved(i)
  \/ \E i \in Invs : BeforeRejected(i)
  \/ \E i \in Invs, r \in Outcomes : BackendReturn(i, r)
  \/ \E i \in Invs : BackendThrow(i, BackendError)
  \/ \E i \in Invs : SuccessResolved(i)
  \/ \E i \in Invs : FailureResolved(i)

SpecPair == InitConcurrent /\ [][NextPair]_vars

\* ------------------------------------------- the bus used on its own
\* The callers of SpecBus subscribe on two kinds.
BusKinds == {StorageEvent("before", "upload"), StorageEvent("failure", "upload")}

\* The callbacks they pass: one that returns, one that throws, one that
\* calls off(event, itself), one that publishes the kind it is called for
\* again, the first time it runs.
BusCallbacks == {"plain", "throws", "offSelf", "reEmit"}

\* A function held by a Set: a caller's callback (w = 0), or the w-th
\* wrappedListener that once() built around a callback.
Fn(cb, w) == [cb |-> cb, w |-> w]

Without(members, f) == SelectSeq(members, LAMBDA x : x # f)
Members(members) == {members[n] : n \in 1..Len(members)}
Count(f, called) == Cardinality({n \in 1..Len(called) : called[n] = f})

\* The registrations the bus holds: what emit() would call for each kind.
BusRegistrations ==
  UNION {{<<k, f>> : f \in Snapshot(k)} : k \in BusKinds}

\* The emitter's mutable state during one synchronous turn.
Here == [heap |-> setHeap, map |-> listeners, wcalls |-> wrapperCalls,
         re |-> reEmitted, pubs |-> <<>>]

LiveSeq(st, k) == IF st.map[k] = 0 THEN <<>> ELSE st.heap[st.map[k]]

\* on(): the returned closure holds eventKey, the Set object and the
\* listener.
Closure(k, f) ==
  [k |-> k, set |-> IF listeners[k] = 0 THEN Len(setHeap) + 1 ELSE listeners[k],
   fn |-> f]

\* on(event, listener) by a caller that keeps the returned closure.
BusOn(k, cb) ==
  /\ AddToSet(k, Fn(cb, 0))
  /\ closures' = Append(closures, Closure(k, Fn(cb, 0)))
  /\ UNCHANGED <<restVars, mgrVars, invVars, wrapperCalls, reEmitted, pubs>>

\* once(event, listener): a new wrappedListener is registered through on();
\* the closure on() returns is the wrapper's `unsubscribe` and is returned
\* to the caller too.
BusOnce(k, cb) ==
  LET f == Fn(cb, Len(wrapperCalls) + 1) IN
  /\ AddToSet(k, f)
  /\ closures' = Append(closures, Closure(k, f))
  /\ wrapperCalls' = Append(wrapperCalls, 0)
  /\ UNCHANGED <<restVars, mgrVars, invVars, reEmitted, pubs>>

\* off(event, listener): delete from the kind's current Set, and drop the
\* map entry when that leaves the Set empty.
StOff(st, k, f) ==
  IF st.map[k] = 0 THEN st
  ELSE LET left == Without(st.heap[st.map[k]], f) IN
       [st EXCEPT !.heap[st.map[k]] = left,
                  !.map[k] = IF left = <<>> THEN 0 ELSE @]

\* The closure returned by on(): delete the listener from the Set it closed
\* over, and if that Set is empty, delete the map entry of its eventKey.
StUnsubscribe(st, h) ==
  LET c == closures[h]
      left == Without(st.heap[c.set], c.fn) IN
  [st EXCEPT !.heap[c.set] = left,
             !.map[c.k] = IF left = <<>> THEN 0 ELSE @]

\* The `unsubscribe` a wrappedListener closed over.
UnsubscribeOf(f) == CHOOSE h \in 1..Len(closures) : closures[h].fn = f

\* emit() walks the array Array.from() built when it started: what is left
\* to call after a listener has run does not depend on the Set any more.
Rest_live(st, k, rest) ==
  SelectSeq(Tail(rest), LAMBDA x : x \in Members(LiveSeq(st, k)))

Rest(st, k, rest) == Tail(rest)

RECURSIVE StEmit(_, _)
RECURSIVE StRun(_, _, _, _)
RECURSIVE StCall(_, _, _)
RECURSIVE StCallback(_, _, _)

\* emit(event, data) up to its await: return at once when the map has no
\* Set for the kind, else call every member of the snapshot in order.
StEmit(st, k) ==
  IF st.map[k] = 0 \/ st.heap[st.map[k]] = <<>> THEN st
  ELSE LET snap == st.heap[st.map[k]]
           p == Len(st.pubs) + 1
           begun == [st EXCEPT !.pubs = Append(@, [kind |-> k,
                                                   registered |-> Members(snap),
                                                   called |-> <<>>])]
       IN StRun(begun, k, p, snap)

StRun(st, k, p, rest) ==
  IF rest = <<>> THEN st
  ELSE LET f == Head(rest)
           noted == [st EXCEPT !.pubs[p].called = Append(@, f)]
           after == StCall(noted, k, f)
       IN StRun(after, k, p, Rest(after, k, rest))

\* listener(data) inside emit()'s try: a wrappedListener first calls its
\* unsubscribe(), then the callback; any other function is the callback.
StCall(st, k, f) ==
  IF f.w = 0 THEN StCallback(st, k, f)
  ELSE StCallback([StUnsubscribe(st, UnsubscribeOf(f))
                     EXCEPT !.wcalls[f.w] = @ + 1], k, f)

StCallback(st, k, f) ==
  CASE f.cb = "plain"   -> st
    [] f.cb = "throws"  -> st
    [] f.cb = "offSelf" -> StOff(st, k, Fn(f.cb, 0))
    [] f.cb = "reEmit"  -> IF st.re THEN st
                           ELSE StEmit([st EXCEPT !.re = TRUE], k)

Adopt(st) ==
  /\ setHeap' = st.heap
  /\ listeners' = st.map
  /\ wrapperCalls' = st.wcalls
  /\ reEmitted' = st.re

\* off(event, listener) by a caller.
BusOff(k, cb) ==
  /\ Adopt(StOff(Here, k, Fn(cb, 0)))
  /\ UNCHANGED <<restVars, mgrVars, invVars, closures, pubs>>

\* A caller invokes a closure it got from on() or once(), any number of
\* times.
CallHandle(h) ==
  /\ Adopt(StUnsubscribe(Here, h))
  /\ UNCHANGED <<restVars, mgrVars, invVars, closures, pubs>>

\* removeAllListeners(event): the map entry goes, the Set object stays as
\* its closures hold it.
RemoveAllListeners(k) ==
  /\ listeners' = [listeners EXCEPT ![k] = 0]
  /\ UNCHANGED <<restVars, mgrVars, invVars, setHeap, closures, wrapperCalls, reEmitted, pubs>>

\* removeAllListeners(): this.listeners.clear().
RemoveAllListenersOfAll ==
  /\ listeners' = [k \in Kinds |-> 0]
  /\ UNCHANGED <<restVars, mgrVars, invVars, setHeap, closures, wrapperCalls, reEmitted, pubs>>

\* emit(event, data) by a caller, with the emits its listeners make while
\* it runs.
BusEmit(k) ==
  LET st == StEmit(Here, k) IN
  /\ Adopt(st)
  /\ pubs' = st.pubs
  /\ UNCHANGED <<restVars, mgrVars, invVars, closures>>

NextBus ==
  \/ /\ Len(closures) < MaxSubs
     /\ \E k \in BusKinds, cb \in BusCallbacks : BusOn(k, cb)
  \/ /\ Len(closures) < MaxSubs
     /\ \E k \in BusKinds, cb \in BusCallbacks : BusOnce(k, cb)
  \/ \E k \in BusKinds, cb \in BusCallbacks : BusOff(k, cb)
  \/ \E h \in 1..Len(closures) : CallHandle(h)
  \/ \E k \in BusKinds : RemoveAllListeners(k)
  \/ RemoveAllListenersOfAll
  \/ \E k \in BusKinds : BusEmit(k)

SpecBus == InitConcurrent /\ [][NextBus]_vars

\* ------------------------------------------- StorageManager, continued
\* Map.prototype.has / get / set / delete on the entries of `adapters`.  set
\* on a key the Map holds replaces the value where the key stands.
Has(m, key) == \E i \in 1..Len(m) : m[i].name = key
Get(m, key) == m[CHOOSE i \in 1..Len(m) : m[i].name = key].inst

MapSet_keepFirst(m, key, inst) ==
  IF Has(m, key) THEN m ELSE Append(m, [name |-> key, inst |-> inst])

MapSet(m, key, inst) ==
  IF Has(m, key)
    THEN [i \in 1..Len(m) |-> IF m[i].name = key
                                THEN [name |-> key, inst |-> inst] ELSE m[i]]
    ELSE Append(m, [name |-> key, inst |-> inst])

MapDelete(m, key) == SelectSeq(m, LAMBDA e : e.name # key)

\* What a call on the manager comes to.
Gave(inst, via) ==
  [how |-> "returned", inst |-> inst, err |-> "", via |-> via]
Raised(err) == [how |-> "threw", inst |-> NoInstance, err |-> err, via |-> ""]
Null == [how |-> "null", inst |-> NoInstance, err |-> "", via |-> ""]
Continue == [how |-> "continue", inst |-> NoInstance, err |-> "", via |-> ""]
Called(call, arg, r) ==
  [call |-> call, arg |-> arg, how |-> r.how, inst |-> r.inst, err |-> r.err,
   via |-> r.via]

\* new StorageManager(config): the default name and the records' names are
\* stored as written.
InitManager ==
  /\ adapters = <<>>
  /\ adapterConfigs \in [RawNames -> UNION {ConfigRecords(n) : n \in RawNames}
                                       \cup {NoConfig}]
  /\ \A n \in RawNames : adapterConfigs[n] \in ConfigRecords(n) \cup {NoConfig}
  /\ defaultAdapter \in {Undefined, "A", "b"}
  /\ enableFallback \in BOOLEAN
  /\ insts = 0
  /\ latest = [n \in Names |-> NoInstance]
  /\ since = [n \in Names |-> 0]
  /\ last = NoCall

\* What registerFactory comes to: the factory was not called, it threw (the
\* error is logged), or it built the adapter that is now registered.
NotInvoked == [how |-> "returned", inst |-> NoInstance, err |-> "", via |-> ""]
FactoryThrew ==
  [how |-> "returned", inst |-> NoInstance, err |-> "logged", via |-> "factory"]

\* `config && config.enabled !== false`.
Usable_whateverEnabled(config) == config.present

Usable(config) == config.present /\ config.enabled

\* registerFactory(name, factory); the factory either builds a ready adapter
\* around the config it is given, or throws.  (`factories` is left out: the
\* class writes it and never reads it.)
RegisterFactory(name, factory) ==
  LET key == toLowerCase(name)
      config == adapterConfigs[key]
      adapter == Built(insts + 1, config.config)
  IN /\ IF Usable(config)
          THEN IF factory = "builds"
                 THEN /\ adapters' = MapSet(adapters, key, adapter)
                      /\ insts' = insts + 1
                      /\ latest' = [latest EXCEPT ![key] = adapter]
                      /\ since' = [since EXCEPT
                                     ![key] = IF @ = 0 THEN insts + 1 ELSE @]
                      /\ last' = Called("registerFactory", name,
                                        Gave(adapter, "factory"))
                 ELSE /\ last' = Called("registerFactory", name, FactoryThrew)
                      /\ UNCHANGED <<adapters, insts, latest, since>>
          ELSE /\ last' = Called("registerFactory", name, NotInvoked)
               /\ UNCHANGED <<adapters, insts, latest, since>>
     /\ UNCHANGED <<adapterConfigs, defaultAdapter, enableFallback, busVars,
                    subVars, invVars, restVars>>

\* registerAdapter(name, adapter) with an instance nobody registered before.
RegisterAdapter(name, ready) ==
  LET key == toLowerCase(name)
      adapter == Instance(insts + 1, ready)
  IN /\ adapters' = MapSet(adapters, key, adapter)
     /\ insts' = insts + 1
     /\ latest' = [latest EXCEPT ![key] = adapter]
     /\ since' = [since EXCEPT ![key] = IF @ = 0 THEN insts + 1 ELSE @]
     /\ last' = NoCall
     /\ UNCHANGED <<adapterConfigs, defaultAdapter, enableFallback,
                    busVars, subVars, invVars, restVars>>

\* getAdapter(name).
GetAdapter_caseSensitive(name) ==
  IF ~Has(adapters, name) THEN Raised("not registered")
  ELSE IF ~Get(adapters, name).ready THEN Raised("not ready")
  ELSE Gave(Get(adapters, name), "name")

GetAdapter(name) ==
  LET key == toLowerCase(name) IN
  IF ~Has(adapters, key) THEN Raised("not registered")
  ELSE IF ~Get(adapters, key).ready THEN Raised("not ready")
  ELSE Gave(Get(adapters, key), "name")

\* getDefaultAdapter().
GetDefaultAdapter_last ==
  IF defaultAdapter = Undefined
    THEN IF adapters # <<>> THEN Gave(adapters[Len(adapters)].inst, "first")
         ELSE Raised("no adapters")
    ELSE GetAdapter(defaultAdapter)

GetDefaultAdapter ==
  IF defaultAdapter = Undefined
    THEN IF adapters # <<>> THEN Gave(adapters[1].inst, "first")
         ELSE Raised("no adapters")
    ELSE GetAdapter(defaultAdapter)

\* configX?.priority ?? 0, the record being looked up under the Map key.
PriorityOf(key) ==
  LET config == adapterConfigs[key] IN
  IF config.priority = <<>> THEN 0 ELSE config.priority[1]

\* getSortedAdapters(): Array.prototype.sort is stable, so entries whose
\* comparison is 0 keep the Map's order.
RECURSIVE Sorted(_)
Sorted(entries) ==
  IF entries = <<>> THEN <<>>
  ELSE LET e == entries[Len(entries)]
           before == Sorted(SubSeq(entries, 1, Len(entries) - 1))
       IN SelectSeq(before, LAMBDA x : PriorityOf(x.name) >= PriorityOf(e.name))
            \o <<e>>
            \o SelectSeq(before, LAMBDA x : PriorityOf(x.name) < PriorityOf(e.name))

getSortedAdapters == Sorted(adapters)

\* One of the two try blocks of getAdapterWithFallback.
Try_swallowing(name, via) ==
  LET r == GetAdapter(name) IN
  IF r.how = "returned"
    THEN IF r.inst.ready THEN Gave(r.inst, via) ELSE Continue
    ELSE Continue

Try_rethrowing(name, via) ==
  LET r == GetAdapter(name) IN
  IF r.how = "returned"
    THEN IF r.inst.ready THEN Gave(r.inst, via) ELSE Continue
    ELSE r

Try(name, via) ==
  LET r == GetAdapter(name) IN
  IF r.how = "returned"
    THEN IF r.inst.ready THEN Gave(r.inst, via) ELSE Continue
    ELSE IF ~enableFallback THEN r ELSE Continue

\* The condition of the scan loop.
Scannable_unready(e, preferredAdapter) ==
  e.name # preferredAdapter /\ e.name # defaultAdapter

Scannable(e, preferredAdapter) ==
  e.inst.ready /\ e.name # preferredAdapter /\ e.name # defaultAdapter

Scan(preferredAdapter) ==
  LET found == SelectSeq(getSortedAdapters,
                         LAMBDA e : Scannable(e, preferredAdapter)) IN
  IF found # <<>> THEN Gave(found[1].inst, "scan") ELSE Null

\* getAdapterWithFallback(preferredAdapter?).
GetAdapterWithFallback_defaultFirst(preferredAdapter) ==
  LET second == IF preferredAdapter # Undefined
                  THEN Try(preferredAdapter, "preferred") ELSE Continue
      first == IF defaultAdapter # Undefined
                    /\ (preferredAdapter = Undefined
                          \/ preferredAdapter # defaultAdapter)
                 THEN Try(defaultAdapter, "default") ELSE Continue
  IN IF first.how # "continue" THEN first
     ELSE IF second.how # "continue" THEN second
     ELSE IF enableFallback THEN Scan(preferredAdapter)
     ELSE Null

GetAdapterWithFallback(preferredAdapter) ==
  LET first == IF preferredAdapter # Undefined
                 THEN Try(preferredAdapter, "preferred") ELSE Continue
      second == IF defaultAdapter # Undefined
                     /\ (preferredAdapter = Undefined
                           \/ preferredAdapter # defaultAdapter)
                  THEN Try(defaultAdapter, "default") ELSE Continue
  IN IF first.how # "continue" THEN first
     ELSE IF second.how # "continue" THEN second
     ELSE IF enableFallback THEN Scan(preferredAdapter)
     ELSE Null

\* The three resolving calls, made by a caller.
Resolve(name) ==
  /\ last' = Called("getAdapter", name, GetAdapter(name))
  /\ UNCHANGED <<adapters, adapterConfigs, defaultAdapter,
                 enableFallback, insts, latest, since, busVars, subVars,
                 invVars, restVars>>

ResolveDefault ==
  /\ last' = Called("getDefaultAdapter", Undefined, GetDefaultAdapter)
  /\ UNCHANGED <<adapters, adapterConfigs, defaultAdapter,
                 enableFallback, insts, latest, since, busVars, subVars,
                 invVars, restVars>>

\* (variant: the Map's entries are put in the order of the sort)
ResolveWithFallback_sortingInPlace(preferredAdapter) ==
  /\ last' = Called("getAdapterWithFallback", preferredAdapter,
                    GetAdapterWithFallback(preferredAdapter))
  /\ adapters' = getSortedAdapters
  /\ UNCHANGED <<adapterConfigs, defaultAdapter,
                 enableFallback, insts, latest, since, busVars, subVars,
                 invVars, restVars>>

ResolveWithFallback(preferredAdapter) ==
  /\ last' = Called("getAdapterWithFallback", preferredAdapter,
                    GetAdapterWithFallback(preferredAdapter))
  /\ UNCHANGED <<adapters, adapterConfigs, defaultAdapter,
                 enableFallback, insts, latest, since, busVars, subVars,
                 invVars, restVars>>

\* setDefaultAdapter(name).
SetDefaultAdapter_unchecked(name) ==
  /\ defaultAdapter' = toLowerCase(name)
  /\ last' = Called("setDefaultAdapter", name, Gave(NoInstance, "name"))
  /\ UNCHANGED <<adapters, adapterConfigs, enableFallback, insts, latest,
                 since, busVars, subVars, invVars, restVars>>

SetDefaultAdapter(name) ==
  /\ IF ~Has(adapters, toLowerCase(name))
       THEN /\ last' = Called("setDefaultAdapter", name, Raised("not registered"))
            /\ UNCHANGED defaultAdapter
       ELSE /\ defaultAdapter' = toLowerCase(name)
            /\ last' = Called("setDefaultAdapter", name,
                              Gave(Get(adapters, toLowerCase(name)), "name"))
  /\ UNCHANGED <<adapters, adapterConfigs, enableFallback, insts, latest,
                 since, busVars, subVars, invVars, restVars>>

\* setFallbackEnabled(enabled).
SetFallbackEnabled(enabled) ==
  /\ enableFallback' = enabled
  /\ last' = NoCall
  /\ UNCHANGED <<adapters, adapterConfigs, defaultAdapter, insts, latest,
                 since, busVars, subVars, invVars, restVars>>

\* removeAdapter(name).
RemoveAdapter(name) ==
  LET key == toLowerCase(name) IN
  /\ adapters' = MapDelete(adapters, key)
  /\ adapterConfigs' = [adapterConfigs EXCEPT ![key] = NoConfig]
  /\ defaultAdapter' = IF defaultAdapter = key THEN Undefined ELSE defaultAdapter
  /\ latest' = [latest EXCEPT ![key] = NoInstance]
  /\ since' = [since EXCEPT ![key] = 0]
  /\ last' = NoCall
  /\ UNCHANGED <<enableFallback, insts, busVars, subVars, invVars, restVars>>

\* clear().
Clear ==
  /\ adapters' = <<>>
  /\ adapterConfigs' = [n \in RawNames |-> NoConfig]
  /\ defaultAdapter' = Undefined
  /\ latest' = [n \in Names |-> NoInstance]
  /\ since' = [n \in Names |-> 0]
  /\ last' = NoCall
  /\ UNCHANGED <<enableFallback, insts, busVars, subVars, invVars, restVars>>

InitRegistry ==
  /\ setHeap = <<>>
  /\ listeners = [k \in Kinds |-> 0]
  /\ pc = [i \in Invs |-> "idle"]
  /\ op = [i \in Invs |-> "upload"]
  /\ meta = [i \in Invs |-> Undefined]
  /\ correlationId = [i \in Invs |-> ""]
  /\ nextUuid = 0
  /\ calls = [i \in Invs |-> [ph \in Phases |-> NoCalls]]
  /\ emitState = [i \in Invs |-> [ph \in Phases |-> "none"]]
  /\ firstRejection = [i \in Invs |-> [ph \in Phases |-> None]]
  /\ emitted = [i \in Invs |-> <<>>]
  /\ backendCalls = [i \in Invs |-> 0]
  /\ response = [i \in Invs |-> None]
  /\ caught = [i \in Invs |-> None]
  /\ result = [i \in Invs |-> [how |-> "pending", value |-> None]]
  /\ closures = <<>>
  /\ wrapperCalls = <<>>
  /\ reEmitted = FALSE
  /\ pubs = <<>>
  /\ InitManager
  /\ NoAdapters
  /\ NoFiles

NextRegistry ==
  \/ /\ insts < MaxInsts
     /\ \E name \in RawNames, factory \in {"builds", "throws"} :
          RegisterFactory(name, factory)
  \/ /\ insts < MaxInsts
     /\ \E name \in RawNames, ready \in BOOLEAN : RegisterAdapter(name, ready)
  \/ \E name \in RawNames : Resolve(name)
  \/ ResolveDefault
  \/ \E preferredAdapter \in RawNames \cup {Undefined} :
       ResolveWithFallback(preferredAdapter)
  \/ \E name \in RawNames : SetDefaultAdapter(name)
  \/ \E enabled \in BOOLEAN : SetFallbackEnabled(enabled)
  \/ \E name \in RawNames : RemoveAdapter(name)
  \/ Clear

SpecRegistry == InitRegistry /\ [][NextRegistry]_vars

\* ================================================ one bus per adapter
\* BaseStorageAdapter keeps its bus in this.eventEmitter and reads the field
\* again at every emit().  StorageEventEmitter objects are numbered in the
\* order they are allocated.

\* `new StorageEventEmitter()`: the object the next allocation gives.
NewStorageEventEmitter_shared ==
  IF emitterCount = 0 THEN emitterCount + 1 ELSE emitterCount
NewStorageEventEmitter == emitterCount + 1

\* The emitters the caller can name: the ones it allocated itself and the
\* ones adapter.getEventEmitter() has handed out.
Reachable == 1..emitterCount

\* new Adapter(config, eventEmitter?): `eventEmitter || new
\* StorageEventEmitter()`.
Construct(a, name, emitter) ==
  /\ eventEmitter[a] = 0
  /\ emitter \in Reachable \cup {NoEmitter}
  /\ providerName' = [providerName EXCEPT ![a] = name]
  /\ IF emitter = NoEmitter
       THEN /\ emitterCount < MaxEmitters
            /\ eventEmitter' = [eventEmitter EXCEPT ![a] = NewStorageEventEmitter]
            /\ own' = [own EXCEPT ![a] = NewStorageEventEmitter]
            /\ emitterCount' = emitterCount + 1
            /\ UNCHANGED injected
       ELSE /\ eventEmitter' = [eventEmitter EXCEPT ![a] = emitter]
            /\ injected' = [injected EXCEPT ![a] = TRUE]
            /\ UNCHANGED <<own, emitterCount>>
  /\ UNCHANGED <<subscribed, received, running, beganOn, started, fsVars,
                 mgrVars, busVars, subVars, invVars>>

\* const shared = new StorageEventEmitter(), made by the caller.
NewEmitter ==
  /\ emitterCount < MaxEmitters
  /\ emitterCount' = emitterCount + 1
  /\ UNCHANGED <<eventEmitter, providerName, own, injected, subscribed,
                 received, running, beganOn, started, fsVars, mgrVars,
                 busVars, subVars, invVars>>

\* adapter.setEventEmitter(emitter)
SetEventEmitter(a, emitter) ==
  /\ eventEmitter[a] # 0
  /\ emitter \in Reachable
  /\ eventEmitter' = [eventEmitter EXCEPT ![a] = emitter]
  /\ injected' = [injected EXCEPT ![a] = TRUE]
  /\ UNCHANGED <<providerName, own, emitterCount, subscribed, received,
                 running, beganOn, started, fsVars, mgrVars, busVars, subVars,
                 invVars>>

\* emitter.on(k, s)
Subscribe(emitter, s, k) ==
  /\ emitter \in Reachable
  /\ Cardinality(subscribed) < MaxWatch
  /\ subscribed' = subscribed \cup {<<emitter, s, k>>}
  /\ UNCHANGED <<eventEmitter, providerName, own, injected, emitterCount,
                 received, running, beganOn, started, fsVars, mgrVars,
                 busVars, subVars, invVars>>

\* this.eventEmitter.emit(k, {adapterName: this.providerName, ...}): what
\* each listener registered for k on the adapter's present bus is called with.
\* `source` is the adapter object whose method emits: it is not in the
\* payload.
Delivered(a, k) ==
  {[to |-> sub[2], bus |-> eventEmitter[a], kind |-> k,
    adapterName |-> providerName[a], source |-> a] :
     sub \in {x \in subscribed : x[1] = eventEmitter[a] /\ x[3] = k}}

\* adapter.upload(...) or adapter.delete(...) up to its first await: the
\* before event is published.
Begin(a, o) ==
  /\ eventEmitter[a] # 0
  /\ running[a] = "idle"
  /\ started < MaxRuns
  /\ started' = started + 1
  /\ running' = [running EXCEPT ![a] = o]
  /\ beganOn' = [beganOn EXCEPT ![a] = eventEmitter[a]]
  /\ received' = received \cup Delivered(a, StorageEvent("before", o))
  /\ UNCHANGED <<eventEmitter, providerName, own, injected, emitterCount,
                 subscribed, fsVars, mgrVars, busVars, subVars, invVars>>

\* ... and after perform*: the success or the failure event is published, on
\* the bus the adapter has by then.
Finish(a, ph) ==
  /\ running[a] # "idle"
  /\ running' = [running EXCEPT ![a] = "idle"]
  /\ beganOn' = [beganOn EXCEPT ![a] = NoEmitter]
  /\ received' = received \cup Delivered(a, StorageEvent(ph, running[a]))
  /\ UNCHANGED <<eventEmitter, providerName, own, injected, emitterCount,
                 subscribed, started, fsVars, mgrVars, busVars, subVars,
                 invVars>>

NextShared ==
  \/ \E a \in AdapterIds, emitter \in EmitterIds \cup {NoEmitter} :
       Construct(a, ProviderName(a), emitter)
  \/ NewEmitter
  \/ \E a \in AdapterIds, emitter \in EmitterIds : SetEventEmitter(a, emitter)
  \/ \E emitter \in EmitterIds, s \in Subscribers, k \in SharedKinds :
       Subscribe(emitter, s, k)
  \/ \E a \in AdapterIds, o \in SharedOps : Begin(a, o)
  \/ \E a \in AdapterIds, ph \in {"success", "failure"} : Finish(a, ph)

SpecShared == InitConcurrent /\ [][NextShared]_vars

\* ================================================ LocalStorageAdapter
\* The adapter on a POSIX filesystem.  The caller awaits each call before it
\* makes the next one, so every call is one action.  config.filePermissions
\* and config.directoryPermissions are left unset.

Min(S) == CHOOSE n \in S : \A m \in S : n <= m

\* The error of looking a path up (access, stat, and the lookup every other
\* call starts with): ENOENT when a name on the way is missing, ENOTDIR when
\* a name that has to be a directory is a regular file.
errno(d, filePath) ==
  LET segs == filePath.segs
      stuck == {n \in 0..(Len(segs) - 1) : d[SubSeq(segs, 1, n)].type # "dir"}
  IN  IF stuck # {}
        THEN IF d[SubSeq(segs, 1, Min(stuck))].type = "absent"
               THEN "ENOENT" ELSE "ENOTDIR"
      ELSE IF d[segs].type = "absent" THEN "ENOENT"
      ELSE IF filePath.slash /\ d[segs].type = "file" THEN "ENOTDIR"
      ELSE "ok"

access(d, filePath) == errno(d, filePath)
stat(d, filePath)   == errno(d, filePath)

readFile(d, filePath) ==
  IF errno(d, filePath) # "ok" THEN errno(d, filePath)
  ELSE IF d[filePath.segs].type = "dir" THEN "EISDIR"
  ELSE "ok"

unlink(d, filePath) ==
  IF errno(d, filePath) # "ok" THEN errno(d, filePath)
  ELSE IF d[filePath.segs].type = "dir" THEN "EISDIR"
  ELSE "ok"

\* fs.writeFile(filePath, data): data that is no string, Buffer, TypedArray
\* or DataView is refused; the file is opened with O_WRONLY|O_CREAT|O_TRUNC.
writeFile(d, filePath, data) ==
  IF data.type # "Buffer" THEN "ERR_INVALID_ARG_TYPE"
  ELSE IF errno(d, dirname(filePath)) # "ok" THEN errno(d, dirname(filePath))
  ELSE IF d[dirname(filePath).segs].type # "dir" THEN "ENOTDIR"
  ELSE IF filePath.slash
         THEN IF d[filePath.segs].type = "file" THEN "ENOTDIR" ELSE "EISDIR"
  ELSE IF d[filePath.segs].type = "dir" THEN "EISDIR"
  ELSE "ok"

\* fs.mkdir(dirPath, {recursive: true})
mkdir(d, dirPath) ==
  IF \E p \in Prefixes(dirPath.segs) : d[p].type = "file"
    THEN [err |-> "ENOTDIR", disk |-> d]
    ELSE [err |-> "ok",
          disk |-> [p \in Paths |->
                      IF p \in Prefixes(dirPath.segs) THEN Dir ELSE d[p]]]

\* access(dirPath, F_OK), and mkdir when that fails.
ensureDirectoryExists(d, dirPath) ==
  IF access(d, dirPath) = "ok" THEN [err |-> "ok", disk |-> d]
  ELSE mkdir(d, dirPath)

Returned_ok(call, key) ==
  [NoReply EXCEPT !.call = call, !.key = key, !.how = "returned",
                  !.success = TRUE]

\* handleError(error, defaultMessage): every fs error is an Error.
handleError(call, key) ==
  [NoReply EXCEPT !.call = call, !.key = key, !.how = "returned",
                  !.code = "STORAGE_ERROR"]

\* throw new FileNotFoundException(key)
FileNotFoundException(call, key) ==
  [NoReply EXCEPT !.call = call, !.key = key, !.how = "raised",
                  !.code = "FILE_NOT_FOUND"]

\* The catch clause of download, delete and get.
Caught(call, key, code) ==
  IF code = "ENOENT" THEN FileNotFoundException(call, key)
  ELSE handleError(call, key)

\* Two keys for the same file.
SameFile(k1, k2) == getFilePath(k1).segs = getFilePath(k2).segs

\* The content of the last successful upload under each key whose file has
\* not been written or deleted since (a ghost: the adapter keeps no such
\* table).
Forget(key) ==
  [k \in DOMAIN stored |-> IF SameFile(k, key) THEN NoContent ELSE stored[k]]

\* The bytes writeFile leaves in the file, and the Buffer readFile makes of
\* the bytes of a file.
Written_empty(data) == <<>>
Written(data) == data.bytes
Read(bytes) == Buffer(bytes)

\* adapter.upload(file, {key: optKey})
Upload(content, optKey) ==
  LET key      == IF optKey = NoKey THEN GeneratedKey ELSE optKey
      filePath == getFilePath(key)
      ensured  == ensureDirectoryExists(disk, dirname(filePath))
      err      == IF ensured.err # "ok" THEN ensured.err
                  ELSE writeFile(ensured.disk, filePath, content)
  IN  /\ disk' = IF err = "ok"
                   THEN [ensured.disk EXCEPT
                           ![filePath.segs] = File(Written(content))]
                   ELSE ensured.disk
      /\ reply' = IF err = "ok" THEN Returned_ok("upload", key)
                  ELSE handleError("upload", key)
      /\ stored' = IF err = "ok" THEN [Forget(key) EXCEPT ![key] = content]
                   ELSE stored
      /\ UNCHANGED <<shareVars, mgrVars, busVars, subVars, invVars>>

\* adapter.download(key)
Download(key) ==
  LET filePath == getFilePath(key)
      err      == IF access(disk, filePath) # "ok" THEN access(disk, filePath)
                  ELSE readFile(disk, filePath)
  IN  /\ reply' = IF err = "ok"
                    THEN [Returned_ok("download", key) EXCEPT
                            !.content = Read(disk[filePath.segs].content)]
                    ELSE Caught("download", key, err)
      /\ UNCHANGED <<disk, stored, shareVars, mgrVars, busVars, subVars,
                     invVars>>

\* adapter.delete(key)
Delete(key) ==
  LET filePath == getFilePath(key)
      err      == IF access(disk, filePath) # "ok" THEN access(disk, filePath)
                  ELSE unlink(disk, filePath)
  IN  /\ disk' = IF err = "ok" THEN [disk EXCEPT ![filePath.segs] = Absent]
                 ELSE disk
      /\ reply' = IF err = "ok" THEN Returned_ok("delete", key)
                  ELSE Caught("delete", key, err)
      /\ stored' = IF err = "ok" THEN Forget(key) ELSE stored
      /\ UNCHANGED <<shareVars, mgrVars, busVars, subVars, invVars>>

\* adapter.get(key)
GetObject(key) ==
  LET err == stat(disk, getFilePath(key))
  IN  /\ reply' = IF err = "ok" THEN Returned_ok("get", key)
                  ELSE Caught("get", key, err)
      /\ UNCHANGED <<disk, stored, shareVars, mgrVars, busVars, subVars,
                     invVars>>

\* adapter.exists(key)
Exists(key) ==
  LET err == access(disk, getFilePath(key))
  IN  /\ reply' = IF err = "ok"
                    THEN [Returned_ok("exists", key) EXCEPT !.exists = "true"]
                  ELSE IF err = "ENOENT"
                    THEN [Returned_ok("exists", key) EXCEPT !.exists = "false"]
                  ELSE handleError("exists", key)
      /\ UNCHANGED <<disk, stored, shareVars, mgrVars, busVars, subVars,
                     invVars>>

\* The regular files below a directory.
FilesBelow(d, segs) ==
  {p \in Paths : d[p].type = "file" /\ Len(p) > Len(segs)
                   /\ SubSeq(p, 1, Len(segs)) = segs}

\* listFilesRecursive(searchPath, prefix): readdir gives the entries of a
\* directory in no particular order, and no directory here holds two files,
\* so the files can come out in any order.
listFilesRecursive(d, segs) ==
  LET files == FilesBelow(d, segs)
  IN  {order \in [1..Cardinality(files) -> files] :
         \A m, n \in 1..Cardinality(files) : order[m] = order[n] => m = n}

\* files.slice(0, maxKeys)
slice(files, maxKeys) ==
  SubSeq(files, 1, IF maxKeys < Len(files) THEN maxKeys ELSE Len(files))

\* adapter.list(options)
List(options) ==
  LET searchPath == [segs |-> Split(options.prefix, <<>>), slash |-> FALSE]
      err == errno(disk, searchPath)
  IN  /\ IF err = "ENOTDIR" \/ (err = "ok" /\ disk[searchPath.segs].type = "file")
           THEN reply' = [handleError("list", NoKey) EXCEPT !.options = options]
           ELSE \E files \in listFilesRecursive(disk, searchPath.segs) :
                  LET maxKeys == IF options.maxKeys = 0 THEN Len(files)
                                 ELSE options.maxKeys
                  IN  reply' = [Returned_ok("list", NoKey) EXCEPT
                                  !.options = options,
                                  !.objects = [n \in 1..Len(slice(files, maxKeys)) |->
                                                 relative(slice(files, maxKeys)[n])],
                                  !.hasMore = Len(files) > maxKeys]
      /\ UNCHANGED <<disk, stored, shareVars, mgrVars, busVars, subVars,
                     invVars>>

NextLocal ==
  \/ \E content \in Contents, optKey \in Keys \cup {NoKey} :
       Upload(content, optKey)
  \/ \E key \in Keys \cup {GeneratedKey} : Download(key)
  \/ \E key \in Keys \cup {GeneratedKey} : Delete(key)
  \/ \E key \in Keys \cup {GeneratedKey} : GetObject(key)
  \/ \E key \in Keys \cup {GeneratedKey} : Exists(key)
  \/ \E prefix \in {<<>>, Key_f}, maxKeys \in 0..MaxKeys,
        continuationToken \in ContinuationTokens :
       List(ListOptions(prefix, maxKeys, continuationToken))

SpecLocal == InitConcurrent /\ [][NextLocal]_vars


TypeOK ==
  /\ \A k \in Kinds : listeners[k] \in 0..Len(setHeap)
  /\ \A i \in Invs : pc[i] \in {"idle", "before", "perform", "success", "failure", "done"}
  /\ nextUuid \in 0..MaxInv

\* ------------------------------------------------------------ vocabulary
\* of the properties
Started(i)       == pc[i] # "idle"
Done(i)          == pc[i] = "done"
EventIdx(i, ph)  == {n \in 1..Len(emitted[i]) : emitted[i][n].kind[1] = ph}
Published(i, ph) == EventIdx(i, ph) # {}
BackendReturned(i) == response[i] # None
BackendRaised(i)   == caught[i] = BackendError
\* listeners of phase ph that threw or whose promise was rejected
FailedIn(i, ph)  == {l \in Listeners : calls[i][ph][l] \in {"caught", "rejected"}}
NoSubscriberFailed(i) == \A ph \in Phases : FailedIn(i, ph) = {}
Returned(i, r)   == result[i] = [how |-> "returned", value |-> r]
Threw(i, e)      == result[i] = [how |-> "threw", value |-> e]

\* C1 (as claimed): once a before-event subscriber has thrown, synchronously
\* or through a rejected promise, perform* is never invoked for that
\* invocation and the call fails with that subscriber's error.
C1_VetoPreventsBackend ==
  \A i \in Invs :
    FailedIn(i, "before") # {} =>
      /\ backendCalls[i] = 0
      /\ Done(i) => \E l \in FailedIn(i, "before") : Threw(i, ListenerError(l))

\* C2 (as claimed): when perform* returned Outcome R the caller receives R,
\* whatever the success-event subscribers do.
C2_SuccessSubscriberCannotMask ==
  \A i \in Invs :
    (Done(i) /\ BackendReturned(i)) => Returned(i, response[i])

\* C3 (as claimed): when perform* raised E the caller observes exactly E,
\* whatever the failure-event subscribers do.
C3_FailureSubscriberCannotMask ==
  \A i \in Invs :
    (Done(i) /\ BackendRaised(i)) => Threw(i, BackendError)

\* C4: when perform* raises E and no subscriber fails, exactly one
\* failure-event is published, it carries E, no success-event is published,
\* and the call fails with E itself.
C4_BackendErrorRethrown ==
  \A i \in Invs :
    (BackendRaised(i) /\ NoSubscriberFailed(i)) =>
      /\ Cardinality(EventIdx(i, "failure")) = 1
      /\ \A n \in EventIdx(i, "failure") : emitted[i][n].payload = BackendError
      /\ ~Published(i, "success")
      /\ Done(i) => Threw(i, BackendError)

C4_Witness ==
  /\ op[1] = "exists" /\ Done(1) /\ BackendRaised(1) /\ NoSubscriberFailed(1)
  /\ calls[1]["failure"]["asyncOk"] = "resolved"
  /\ Threw(1, BackendError)

\* C5: when perform* returns Outcome R (success true or false) and no
\* subscriber fails, exactly one success-event is published, it carries R, no
\* failure-event is published and the caller receives R; and a call that
\* returns an Outcome returns the one perform* returned, never one made up
\* from a raised error.
C5_OutcomePassedThrough ==
  \A i \in Invs :
    /\ (BackendReturned(i) /\ NoSubscriberFailed(i)) =>
         /\ Cardinality(EventIdx(i, "success")) = 1
         /\ \A n \in EventIdx(i, "success") : emitted[i][n].payload = response[i]
         /\ ~Published(i, "failure")
         /\ Done(i) => Returned(i, response[i])
    /\ result[i].how = "returned" =>
         /\ BackendReturned(i) /\ ~BackendRaised(i)
         /\ result[i].value = response[i]

C5_Witness ==
  /\ op[1] = "list" /\ Done(1) /\ NoSubscriberFailed(1)
  /\ response[1] = Outcome("success:false")
  /\ calls[1]["success"]["syncOk"] = "resolved"
  /\ Returned(1, Outcome("success:false"))

\* C6 (as claimed): perform* is called only after every before-event
\* subscriber has run to completion, and a success- or failure-event is
\* published only after perform* has returned or thrown.
C6_PhaseOrdering ==
  \A i \in Invs :
    /\ backendCalls[i] > 0 =>
         \A l \in Listeners : calls[i]["before"][l] # "pending"
    /\ (Published(i, "success") \/ Published(i, "failure")) =>
         (BackendReturned(i) \/ BackendRaised(i))

\* C7 (as claimed): no invocation publishes both a success-event and a
\* failure-event; one whose perform* was called and that has ended has
\* published exactly one of the two.
C7_SuccessXorFailure ==
  \A i \in Invs :
    /\ ~(Published(i, "success") /\ Published(i, "failure"))
    /\ (Done(i) /\ backendCalls[i] > 0) =>
         Cardinality(EventIdx(i, "success") \cup EventIdx(i, "failure")) = 1

\* C8: all events of one invocation carry the same correlation id, and two
\* invocations that supply no id carry different ids.
C8_CorrelationIds ==
  /\ \A i \in Invs : \A n \in 1..Len(emitted[i]) :
       emitted[i][n].correlationId = emitted[i][1].correlationId
  /\ \A i, j \in Invs :
       (i # j /\ Started(i) /\ Started(j)
          /\ meta[i] = Undefined /\ meta[j] = Undefined) =>
         emitted[i][1].correlationId # emitted[j][1].correlationId

C8_Witness ==
  /\ Done(1) /\ Done(2)
  /\ op[1] = "get" /\ op[2] = "get"
  /\ meta[1] = Undefined /\ meta[2] = Undefined
  /\ Len(emitted[1]) = 2 /\ Len(emitted[2]) = 2
  /\ Published(1, "success") /\ Published(2, "failure")
  /\ emitted[1][2].correlationId # emitted[2][2].correlationId

C10_PublishAwaitsAll ==
  \A i \in Invs : \A ph \in Phases :
    emitState[i][ph] \in {"resolved", "rejected"} =>
      \A l \in Listeners : calls[i][ph][l] # "pending"

\* C11: a publish calls every listener that was registered for the kind when
\* the publish started exactly once, a listener that removes itself (or is
\* removed) while the publish runs included.
C11_SnapshotDelivery ==
  \A p \in 1..Len(pubs) :
    \A f \in pubs[p].registered : Count(f, pubs[p].called) = 1

\* A publish that found a once-wrapper behind a re-publishing listener: the
\* inner publish has unsubscribed the wrapper before the outer one reaches it.
C11_Witness ==
  \E p \in 1..Len(pubs) :
    /\ Cardinality(pubs[p].registered) >= 2
    /\ \E f \in pubs[p].registered :
         /\ f.w > 0
         /\ f \notin Snapshot(pubs[p].kind)
         /\ pubs[p].called[1].cb = "reEmit"
         /\ Len(pubs) >= 2

\* C12: invoking the closure returned by on() removes the registration it
\* was created for and leaves every other registration in place.
C12_HandleRemovesOnlyItsOwn ==
  [][\A h \in 1..Len(closures) :
       CallHandle(h) =>
         BusRegistrations' = BusRegistrations \ {<<closures[h].k, closures[h].fn>>}]_vars

\* C13: the callback given to once() runs at most once, and its wrapper is
\* registered nowhere once it has run.
C13_OnceAtMostOnce ==
  \A w \in 1..Len(wrapperCalls) :
    /\ wrapperCalls[w] <= 1
    /\ wrapperCalls[w] >= 1 =>
         \A k \in BusKinds : \A f \in Snapshot(k) : f.w # w

\* ------------------------------------------------------------ vocabulary
\* of the registry's properties
Asked(call)     == last.call = call
Given(name)     == name # Undefined
RegisteredAs(name) == latest[toLowerCase(name)]
Registered(name)   == Given(name) /\ RegisteredAs(name) # NoInstance
Available(name)    == Registered(name) /\ RegisteredAs(name).ready
RaisedWith(err)    == last.how = "threw" /\ last.err = err
Gives(inst)        == last.how = "returned" /\ last.inst = inst

\* C14: getAdapter(name) returns the instance most recently registered under
\* the name when there is one and it is ready; it raises "not registered"
\* when there is none and "not ready" when it is not ready.
C14_ResolveByName ==
  Asked("getAdapter") =>
    /\ ~Registered(last.arg) => RaisedWith("not registered")
    /\ Registered(last.arg) /\ ~Available(last.arg) => RaisedWith("not ready")
    /\ Available(last.arg) => Gives(RegisteredAs(last.arg))

\* A name registered twice, resolved under another spelling.
C14_Witness ==
  /\ Asked("getAdapter") /\ last.arg = "A"
  /\ Len(adapters) = 1 /\ insts = 2
  /\ since["a"] = 1
  /\ last.how = "returned" /\ last.inst.id = 2

\* C15: with fallback disabled, getAdapterWithFallback raises when the
\* preferred name is given and unavailable, and when none is given and the
\* default name is set and unavailable.
C15_NoFallbackRaises ==
  Asked("getAdapterWithFallback") /\ ~enableFallback =>
    /\ Given(last.arg) /\ ~Available(last.arg) => last.how = "threw"
    /\ ~Given(last.arg) /\ Given(defaultAdapter) /\ ~Available(defaultAdapter)
         => last.how = "threw"

\* The preferred adapter is not ready while another one is.
C15_Witness ==
  /\ Asked("getAdapterWithFallback") /\ ~enableFallback
  /\ Registered(last.arg) /\ ~Available(last.arg)
  /\ \E n \in Names : Available(n)
  /\ RaisedWith("not ready")

\* C16: getAdapterWithFallback returns the preferred adapter when it is
\* available; otherwise, with fallback enabled, the default adapter when it
\* is available; the scan returns neither of the two.
C16_PreferredDefaultScan ==
  Asked("getAdapterWithFallback") =>
    /\ Available(last.arg) => Gives(RegisteredAs(last.arg))
    /\ ~Available(last.arg) /\ enableFallback /\ Available(defaultAdapter)
         => Gives(RegisteredAs(defaultAdapter))
    /\ last.via = "scan" =>
         /\ Registered(last.arg) => last.inst # RegisteredAs(last.arg)
         /\ Registered(defaultAdapter) => last.inst # RegisteredAs(defaultAdapter)

\* The default adapter is returned although the other ready adapter has the
\* higher priority.
C16_Witness ==
  /\ Asked("getAdapterWithFallback") /\ enableFallback /\ ~Given(last.arg)
  /\ defaultAdapter = "b" /\ Gives(RegisteredAs("b"))
  /\ Available("a")
  /\ adapterConfigs["a"].priority = <<1>> /\ adapterConfigs["b"].priority = <<>>

\* The priorities the configuration gives an adapter: those of the records
\* supplied under a name equal to the adapter's up to letter case, and 0 for
\* an adapter without one.
ConfiguredPriorities(key) ==
  LET given == {n \in RawNames : toLowerCase(n) = key /\ adapterConfigs[n].present}
  IN IF given = {} THEN {0}
     ELSE {IF adapterConfigs[n].priority = <<>> THEN 0
           ELSE adapterConfigs[n].priority[1] : n \in given}

\* The adapters the scan may return, and the name of the one it returned.
Candidates ==
  {n \in Names : Available(n) /\ n # toLowerCase(last.arg)
                   /\ n # toLowerCase(defaultAdapter)}
GivenName == CHOOSE n \in Names : RegisteredAs(n) = last.inst
Scanned ==
  /\ Asked("getAdapterWithFallback") /\ enableFallback
  /\ ~Available(last.arg) /\ ~Available(defaultAdapter)
  /\ last.how = "returned"

\* C17: with fallback enabled and neither the preferred nor the default
\* adapter available, no remaining ready adapter has a higher configured
\* priority than the one returned.
C17_HighestPriorityWins ==
  Scanned =>
    \A n \in Candidates :
      \E p \in ConfiguredPriorities(n), q \in ConfiguredPriorities(GivenName) :
        p <= q

\* C18: among the remaining ready adapters of the returned one's configured
\* priority, none was registered before the one returned.
C18_TiesByRegistration ==
  Scanned =>
    \A n \in Candidates :
      ConfiguredPriorities(n) = ConfiguredPriorities(GivenName)
        => last.inst.id <= RegisteredAs(n).id

\* C19, as claimed: getAdapterWithFallback returns null only with fallback
\* disabled.
C19_NullOnlyWithoutFallback ==
  Asked("getAdapterWithFallback") /\ last.how = "null" => ~enableFallback

\* C19, amended: getAdapterWithFallback returns null exactly when fallback
\* is disabled and neither a preferred nor a default name is set, or fallback
\* is enabled and no registered adapter is ready.
C19_NullWhenNothingToGive ==
  Asked("getAdapterWithFallback") =>
    (last.how = "null" <=>
       \/ ~enableFallback /\ ~Given(last.arg) /\ ~Given(defaultAdapter)
       \/ enableFallback /\ \A n \in Names : ~Available(n))

\* Fallback is enabled, the preferred adapter is unregistered and the only
\* registered adapter is not ready.
C19_Witness ==
  /\ Asked("getAdapterWithFallback") /\ enableFallback
  /\ Given(last.arg) /\ ~Registered(last.arg)
  /\ \E n \in Names : Registered(n)
  /\ last.how = "null"

\* What C14 says getAdapter(name) comes to.
ResolvesAs(name) ==
  /\ ~Registered(name) => RaisedWith("not registered")
  /\ Registered(name) /\ ~Available(name) => RaisedWith("not ready")
  /\ Available(name) => Gives(RegisteredAs(name))

InRegistry == {n \in Names : Registered(n)}

\* C20, as claimed: without a default name getDefaultAdapter returns the
\* instance registered before every other instance in the registry.
C20_EarliestInstance ==
  Asked("getDefaultAdapter") =>
    IF Given(defaultAdapter) THEN ResolvesAs(defaultAdapter)
    ELSE IF InRegistry = {} THEN last.how = "threw"
    ELSE /\ last.how = "returned"
         /\ \A n \in InRegistry : last.inst.id <= RegisteredAs(n).id

\* C20, amended: without a default name getDefaultAdapter returns the
\* instance now registered under the name that entered the registry first;
\* with one it is getAdapter(default); it raises on an empty registry.
C20_EarliestName ==
  Asked("getDefaultAdapter") =>
    IF Given(defaultAdapter) THEN ResolvesAs(defaultAdapter)
    ELSE IF InRegistry = {} THEN last.how = "threw"
    ELSE \E n \in InRegistry :
           /\ \A m \in InRegistry : since[n] <= since[m]
           /\ Gives(RegisteredAs(n))

\* Two names in the registry, the first of them registered again after the
\* second.
C20_Witness ==
  /\ Asked("getDefaultAdapter") /\ ~Given(defaultAdapter)
  /\ Cardinality(InRegistry) = 2
  /\ last.how = "returned"
  /\ \E n \in InRegistry : RegisteredAs(n).id < last.inst.id

\* The records the configuration holds under a name equal to `name` up to
\* letter case.
SameName(n, m) == toLowerCase(n) = toLowerCase(m)
Matching(name) ==
  {n \in RawNames : SameName(n, name) /\ adapterConfigs[n].present}
DisabledByConfig(name) ==
  Matching(name) # {} /\ \A n \in Matching(name) : ~adapterConfigs[n].enabled
EnabledByConfig(name) ==
  Matching(name) # {} /\ \A n \in Matching(name) : adapterConfigs[n].enabled
Invoked(call) == call.via = "factory"

\* C21: registerFactory under a name whose record is disabled builds no
\* instance; with fallback enabled and no default name, asking for such a
\* name (nothing registered under it) does not raise and returns a ready
\* adapter found by the scan whenever there is one.
C21_DisabledFallsBack ==
  /\ Asked("registerFactory") /\ DisabledByConfig(last.arg) =>
       ~Invoked(last) /\ last.inst = NoInstance
  /\ /\ Asked("getAdapterWithFallback") /\ enableFallback /\ ~Given(defaultAdapter)
     /\ Given(last.arg) /\ DisabledByConfig(last.arg) /\ ~Registered(last.arg)
     => /\ last.how # "threw"
        /\ (\E n \in Names : Available(n)) =>
             /\ last.how = "returned" /\ last.via = "scan"
             /\ \E n \in Names : Available(n) /\ last.inst = RegisteredAs(n)

\* "b" is disabled and unregistered, "a" was built by its factory and is
\* returned for "b".
C21_Witness ==
  /\ Asked("getAdapterWithFallback") /\ enableFallback /\ ~Given(defaultAdapter)
  /\ last.arg = "b" /\ DisabledByConfig("b") /\ ~Registered("b")
  /\ Gives(RegisteredAs("a")) /\ RegisteredAs("a").config = Blob("a")

\* C22: registerFactory(name, f) calls f exactly when an enabled record was
\* supplied for the name, with that record's config; the instance f builds is
\* registered under the name; when f throws or is not called the call
\* returns and the registrations are what they were.
C22_FactoryInvocation ==
  [][\A name \in RawNames, factory \in {"builds", "throws"} :
       RegisterFactory(name, factory) =>
         /\ Invoked(last') => \E n \in Matching(name) : adapterConfigs[n].enabled
         /\ EnabledByConfig(name) => Invoked(last')
         /\ last'.how = "returned"
         /\ IF Invoked(last') /\ factory = "builds"
              THEN /\ \E n \in Matching(name) : last'.inst.config = adapterConfigs[n].config
                   /\ latest' = [latest EXCEPT ![toLowerCase(name)] = last'.inst]
              ELSE latest' = latest]_vars

\* C23: setDefaultAdapter(name) raises and leaves the default name alone
\* when nothing is registered under the name; else it makes the name the
\* default, and getDefaultAdapter then comes to what getAdapter(name) does.
C23_SetDefault ==
  [][\A name \in RawNames :
       SetDefaultAdapter(name) =>
         IF ~Registered(name)
           THEN last'.how = "threw" /\ defaultAdapter' = defaultAdapter
           ELSE /\ last'.how = "returned"
                /\ SameName(defaultAdapter', name)
                /\ GetDefaultAdapter' = GetAdapter(name)']_vars

\* setDefaultAdapter("A") has made the adapter registered under "a" the
\* default.
C23_Witness ==
  /\ Asked("setDefaultAdapter") /\ last.arg = "A" /\ last.how = "returned"
  /\ defaultAdapter = "a" /\ GetDefaultAdapter = Gave(RegisteredAs("a"), "name")

\* C24: the registry holds one registration per case-folded name; getAdapter
\* and getAdapterWithFallback come to the same under every spelling of a
\* name; removeAdapter and setDefaultAdapter under one spelling act on the
\* registration whatever spelling it is asked for under afterwards.
C24_CaseInsensitiveNames ==
  /\ [](/\ \A i, j \in 1..Len(adapters) :
             SameName(adapters[i].name, adapters[j].name) => i = j
        /\ Asked("getAdapter") =>
             \A n \in RawNames : SameName(n, last.arg) =>
               last = Called("getAdapter", last.arg, GetAdapter(n))
        /\ Asked("getAdapterWithFallback") /\ Given(last.arg) =>
             \A n \in RawNames : SameName(n, last.arg) =>
               last = Called("getAdapterWithFallback", last.arg,
                             GetAdapterWithFallback(n)))
  /\ [][\A name \in RawNames :
          /\ RemoveAdapter(name) =>
               \A n \in RawNames : SameName(n, name) =>
                 GetAdapter(n)'.err = "not registered"
          /\ SetDefaultAdapter(name) /\ Registered(name) =>
               \A n \in RawNames : SameName(n, name) =>
                 GetDefaultAdapter' = GetAdapter(n)']_vars

\* An adapter is returned for "A" as the preferred one; nothing was ever
\* registered under another name.
C24_Witness ==
  /\ Asked("getAdapterWithFallback") /\ last.arg = "A"
  /\ last.how = "returned" /\ last.via = "preferred"
  /\ since["a"] > 0 /\ since["b"] = 0

\* C30: a record supplied under name n, the only one for its case-folded
\* name, governs a registration under every spelling of n: registerFactory
\* calls the factory with the record's config if the record is enabled and
\* does not call it if it is disabled, and in the scan the adapter is not
\* passed over for one whose configured priorities are all lower.
C30_RecordAppliesUnderAnySpelling ==
  \A n \in RawNames : Matching(n) = {n} =>
    LET record == adapterConfigs[n]
        priority == IF record.priority = <<>> THEN 0 ELSE record.priority[1]
    IN /\ Asked("registerFactory") /\ SameName(last.arg, n) =>
            /\ Invoked(last) <=> record.enabled
            /\ last.inst # NoInstance => last.inst.config = record.config
       /\ Scanned /\ toLowerCase(n) \in Candidates =>
            \E q \in ConfiguredPriorities(GivenName) : priority <= q

\* C29: a failure-event is published only for an invocation whose backend
\* operation was called and raised; an invocation stopped by a before-event
\* subscriber publishes neither a success- nor a failure-event.
C29_FailureOnlyAfterBackendRaised ==
  \A i \in Invs :
    /\ Published(i, "failure") => backendCalls[i] = 1 /\ BackendRaised(i)
    /\ AnyRejected(i, "before") /\ backendCalls[i] = 0 =>
         ~Published(i, "success") /\ ~Published(i, "failure")

\* ---------------------------------------------------------------- C25
\* The record a callback registered as x = <<emitter, callback, kind>> is
\* called with when adapter a publishes that kind on that emitter.
Receipt(x, a) ==
  [to |-> x[2], bus |-> x[1], kind |-> x[3],
   adapterName |-> providerName[a], source |-> a]

\* The kinds adapter a can have published in a step that moved it.
KindsOfStep(a) ==
  IF running[a] = "idle"
    THEN {StorageEvent("before", running'[a])}
    ELSE {StorageEvent(ph, running[a]) : ph \in {"success", "failure"}}

\* C25: the buses the constructors allocate are pairwise distinct, two
\* adapters have the same bus only after a bus was passed to one of them
\* (constructor argument or setEventEmitter), and an adapter that was passed
\* none publishes on its own bus only; so a callback registered on the bus
\* adapter A allocated is called for an operation of adapter B only after a
\* bus was passed to B.  What a callback receives carries the provider name
\* of the adapter whose operation published it, and every publication of an
\* adapter reaches all callbacks registered for its kind on the bus the
\* adapter has at that moment, whichever adapters share that bus.
C25_BusPerAdapter ==
  /\ [](/\ \A a, b \in AdapterIds :
             a # b /\ own[a] # 0 => own[a] # own[b]
        /\ \A a, b \in AdapterIds :
             a # b /\ eventEmitter[a] # 0 /\ eventEmitter[a] = eventEmitter[b]
               => injected[a] \/ injected[b]
        /\ \A r \in received :
             /\ <<r.bus, r.to, r.kind>> \in subscribed
             /\ r.adapterName = ProviderName(r.source)
             /\ ~injected[r.source] => r.bus = own[r.source]
             /\ \A a \in AdapterIds \ {r.source} :
                  r.bus = own[a] => injected[r.source])
  /\ [][\A a \in AdapterIds : running'[a] # running[a] =>
          \E k \in KindsOfStep(a) : \A x \in subscribed :
            x[1] = eventEmitter[a] /\ x[3] = k => Receipt(x, a) \in received']_vars

\* One callback, registered once on a bus both adapters were given, has been
\* called for an operation of each, with "Local" and with "Azure".
C25_Witness ==
  \E r1, r2 \in received :
    /\ r1.to = r2.to /\ r1.bus = r2.bus /\ r1.kind = r2.kind
    /\ r1.source = 1 /\ r1.adapterName = "Local"
    /\ r2.source = 2 /\ r2.adapterName = "Azure"
    /\ injected[1] /\ injected[2]

\* ---------------------------------------------------------------- C26
\* C26: when download(k) is called while the content of a successful
\* upload under k is still the last thing written to k's file and the file
\* has not been deleted, download returns success = true with content equal
\* to what was uploaded.
C26_RoundTrip ==
  reply.call = "download" /\ stored[reply.key] # NoContent =>
    /\ reply.how = "returned" /\ reply.success
    /\ reply.content = stored[reply.key]

\* The nested key was uploaded twice, with different bytes, and downloaded
\* after the second upload.
C26_Witness ==
  /\ reply.call = "download" /\ reply.key = Key_f_g
  /\ stored[Key_f_g] = Buffer(<<2>>)
  /\ reply.content = Buffer(<<2>>)
  /\ disk[<<Key_g>>].type = "file"

\* ---------------------------------------------------------------- C27
Range(seq) == {seq[n] : n \in 1..Len(seq)}

\* The keys of the objects stored below the prefix of a list call.
StoredObjects(options) ==
  {relative(p) : p \in FilesBelow(disk, Split(options.prefix, <<>>))}

\* A list call that returned with a cap smaller than the number of objects.
Capped(r) ==
  /\ r.call = "list" /\ r.how = "returned" /\ r.success
  /\ r.options.maxKeys > 0
  /\ r.options.maxKeys < Cardinality(StoredObjects(r.options))

\* C27: a list call capped below the number of stored objects returns
\* exactly maxKeys objects, hasMore = true and a continuation token; the
\* next list call, made with that token and the same prefix and cap while
\* the remaining objects fit in one page, returns the objects the first one
\* left out, each once, and hasMore = false.
C27_Pagination ==
  /\ [](Capped(reply) =>
          /\ Len(reply.objects) = reply.options.maxKeys
          /\ reply.hasMore
          /\ reply.nextContinuationToken # Undefined)
  /\ [][/\ Capped(reply)
         /\ reply'.call = "list"
         /\ reply'.options =
              [reply.options EXCEPT
                 !.continuationToken = reply.nextContinuationToken]
         /\ Cardinality(StoredObjects(reply.options)) <=
              2 * reply.options.maxKeys
         => /\ Range(reply'.objects) =
                 StoredObjects(reply.options) \ Range(reply.objects)
            /\ Len(reply'.objects) = Cardinality(Range(reply'.objects))
            /\ ~reply'.hasMore]_vars

\* ---------------------------------------------------------------- C28
\* Nothing is at the path of the key: neither a file nor a directory.
Missing(key) == errno(disk, getFilePath(key)) # "ok"

\* C28: download, delete and get called with a key at whose path nothing
\* is raise FileNotFoundException (code FILE_NOT_FOUND); exists called with
\* such a key returns success = true, exists = false.
C28_NotFound ==
  [][/\ reply'.call \in {"download", "delete", "get"} /\ Missing(reply'.key) =>
          reply'.how = "raised" /\ reply'.code = "FILE_NOT_FOUND"
     /\ reply'.call = "exists" /\ Missing(reply'.key) =>
          reply'.how = "returned" /\ reply'.success /\ reply'.exists = "false"]_vars

\* ---------------------------------------------------------------- C31
\* C31: with fallback enabled getAdapterWithFallback does not raise,
\* whatever name is preferred and whatever is registered; it returns null or
\* an instance that is ready.
C31_FallbackNeverRaises ==
  Asked("getAdapterWithFallback") /\ enableFallback =>
    /\ last.how \in {"returned", "null"}
    /\ last.how = "returned" => last.inst.ready

\* The preferred name was not registered and the default adapter not ready:
\* both were passed over, the scan found nothing else and the call gave null.
C31_Witness ==
  /\ Asked("getAdapterWithFallback") /\ enableFallback
  /\ Given(last.arg) /\ ~Registered(last.arg)
  /\ Registered(defaultAdapter) /\ ~Available(defaultAdapter)
  /\ last.how = "null"

\* ---------------------------------------------------------------- C32
\* C32: removeAdapter(name) leaves nothing registered under the name and no
\* configuration record for it, unsets the default name if it is the name,
\* and leaves the other registrations, another default name and the fallback
\* flag as they were; clear() leaves no registration, no record and no
\* default name, and the fallback flag as it was; getAdapter of a removed
\* name raises not-registered.
C32_RemoveAndClear ==
  [][/\ \A name \in RawNames :
          RemoveAdapter(name) =>
            /\ ~Registered(name)' /\ Matching(name)' = {}
            /\ GetAdapter(name)' = Raised("not registered")
            /\ defaultAdapter' = IF SameName(defaultAdapter, name)
                                   THEN Undefined ELSE defaultAdapter
            /\ \A n \in Names : ~SameName(n, name) =>
                 /\ RegisteredAs(n)' = RegisteredAs(n)
                 /\ GetAdapter(n)' = GetAdapter(n)
            /\ enableFallback' = enableFallback
     /\ Clear =>
          /\ \A n \in RawNames :
               /\ ~Registered(n)' /\ Matching(n)' = {}
               /\ GetAdapter(n)' = Raised("not registered")
          /\ defaultAdapter' = Undefined
          /\ enableFallback' = enableFallback]_vars

\* ---------------------------------------------------------------- C35
ResolvingCalls == {"getAdapter", "getDefaultAdapter", "getAdapterWithFallback"}

\* C35: an instance that getAdapter, getDefaultAdapter or
\* getAdapterWithFallback returns is ready.
C35_ReturnedIsReady ==
  last.call \in ResolvingCalls /\ last.how = "returned" => last.inst.ready

\* ---------------------------------------------------------------- C36
\* C36: the default name is unset or an instance is registered under it.
C36_DefaultIsRegistered ==
  Given(defaultAdapter) => Registered(defaultAdapter)

\* ---------------------------------------------------------------- C37
\* C37: no resolving call returns an instance registered under a name whose
\* configuration records all say enabled = false.
C37_DisabledNeverReturned ==
  last.call \in ResolvingCalls /\ last.how = "returned" =>
    \A n \in Names : RegisteredAs(n) = last.inst => ~DisabledByConfig(n)

\* ---------------------------------------------------------------- C38
\* C38: getAdapter, getDefaultAdapter and getAdapterWithFallback leave the
\* registrations and their order, the configuration records, the default
\* name and the fallback flag as they were, however the call ends.
C38_ResolvingChangesNothing ==
  [][last'.call \in ResolvingCalls =>
       /\ adapters' = adapters
       /\ adapterConfigs' = adapterConfigs
       /\ defaultAdapter' = defaultAdapter
       /\ enableFallback' = enableFallback]_vars

\* A scan has sorted the entries into an order that is not the Map's, and
\* returned the adapter the Map has second.
C38_Witness ==
  /\ Scanned /\ last.via = "scan"
  /\ getSortedAdapters # adapters
  /\ Len(adapters) >= 2 /\ last.inst = adapters[2].inst

\* ---------------------------------------------------------------- C33
\* listenerCount(event) and eventNames().
listenerCount(k) == Len(SnapshotSeq(k))
eventNames == {k \in Kinds : listeners[k] # 0}

\* C33: listenerCount(kind) counts the registrations made for the kind and
\* not removed since, one for each on() or once() call: every such call
\* adds one to the count of its kind, removeAllListeners leaves none, a call
\* of an unsubscribe closure takes away at most its own, no call changes the
\* count of another kind, and eventNames() is the set of kinds whose
\* listenerCount is at least 1.
C33_CountsRegistrations ==
  /\ [](eventNames = {k \in Kinds : listenerCount(k) >= 1})
  /\ [][/\ \A k \in BusKinds, cb \in BusCallbacks :
            BusOn(k, cb) \/ BusOnce(k, cb) =>
              /\ listenerCount(k)' = listenerCount(k) + 1
              /\ \A other \in Kinds \ {k} :
                   listenerCount(other)' = listenerCount(other)
        /\ \A k \in BusKinds :
            RemoveAllListeners(k) =>
              /\ listenerCount(k)' = 0
              /\ \A other \in Kinds \ {k} :
                   listenerCount(other)' = listenerCount(other)
        /\ RemoveAllListenersOfAll => \A k \in Kinds : listenerCount(k)' = 0
        /\ \A h \in 1..Len(closures) :
            CallHandle(h) =>
              /\ listenerCount(closures[h].k)' >= listenerCount(closures[h].k) - 1
              /\ \A other \in Kinds \ {closures[h].k} :
                   listenerCount(other)' = listenerCount(other)]_vars

\* ---------------------------------------------------------------- C40
\* The wrappedListeners registered for kind k by once(k, cb) calls.
OnceRegistrations(k, cb) == {f \in Snapshot(k) : f.cb = cb /\ f.w > 0}

\* C40: off(kind, cb) removes the registrations that once(kind, cb) made and
\* that have not run: none is left for a later emit to call, and each of them
\* comes off listenerCount(kind).
C40_OffRemovesOnce ==
  [][\A k \in BusKinds, cb \in BusCallbacks :
       BusOff(k, cb) =>
         /\ OnceRegistrations(k, cb)' = {}
         /\ listenerCount(k)' <=
              listenerCount(k) - Cardinality(OnceRegistrations(k, cb))]_vars

\* ---------------------------------------------------------------- C39
\* C39: the success or failure event of an operation is published on the bus
\* its before event was published on, also when setEventEmitter was called
\* in between: every callback registered for the kind on that bus is called
\* with it, and no callback on another bus is.
C39_OneBusPerInvocation ==
  [][\A a \in AdapterIds, ph \in {"success", "failure"} :
       Finish(a, ph) =>
         /\ \A x \in subscribed :
              x[1] = beganOn[a] /\ x[3] = StorageEvent(ph, running[a])
                => Receipt(x, a) \in received'
         /\ \A r \in received' \ received : r.bus = beganOn[a]]_vars

\* ---------------------------------------------------------------- C34
\* All that one invocation reads and writes, and all its caller and the
\* listeners see of it.
Frame(i) ==
  <<pc[i], op[i], meta[i], correlationId[i], calls[i], emitState[i],
    firstRejection[i], emitted[i], backendCalls[i], response[i], caught[i],
    result[i]>>

\* Invocation i can take its next step now: none of its awaits waits for
\* something another invocation has to do.
NotBlocked(i) ==
  /\ pc[i] = "before" /\ AllFulfilled(i, "before") => ENABLED BeforeResolved(i)
  /\ pc[i] = "before" /\ AnyRejected(i, "before") => ENABLED BeforeRejected(i)
  /\ pc[i] = "perform" => ENABLED BackendThrow(i, BackendError)
  /\ pc[i] = "success" /\ AllFulfilled(i, "success") => ENABLED SuccessResolved(i)
  /\ pc[i] = "failure" /\ AllFulfilled(i, "failure") => ENABLED FailureResolved(i)

\* What invocation i publishes and gives its caller follows from its own
\* operation, correlation id, backend answer and listeners' answers.
OwnResult(i) ==
  /\ \A n \in 1..Len(emitted[i]) :
       /\ emitted[i][n].correlationId = correlationId[i]
       /\ emitted[i][n].kind[2] = op[i]
  /\ result[i].how = "returned" => result[i].value = response[i]
  /\ result[i].how = "threw" => result[i].value = caught[i]

\* C34: invocations in flight at once on one adapter do not touch each
\* other: none waits for another, and a step of one - a veto or a backend
\* failure included - leaves the other's outcome, error and events (kinds,
\* order, correlation id) as they were.
C34_Independent ==
  /\ [](\A i \in Invs : NotBlocked(i) /\ OwnResult(i))
  /\ [][\A i, j \in Invs :
          i # j /\ Frame(i)' # Frame(i) => Frame(j)' = Frame(j)]_vars

\* Two invocations in flight at once: the first vetoed by a listener and
\* publishing its failure-event, the second past its backend call and
\* publishing its success-event.
C34_Witness ==
  \E i, j \in Invs :
    /\ pc[i] = "failure" /\ caught[i] = ListenerError("asyncReject")
    /\ backendCalls[i] = 0
    /\ pc[j] = "success" /\ response[j] = Outcome("success:true")

====
